---- MODULE Spec2Model ----
(***************************************************************************)
(* Model of the grain-settlement extraction engine (parser.py, app.py,     *)
(* src/utils_numbers.py).  The program is a set of pure functions over     *)
(* text and word lists; each function is an operator computed the way the  *)
(* code computes it, and each specification draws the function's input in  *)
(* Init and applies the function in an action.                             *)
(*                                                                         *)
(* Text is a TLA+ string, read one character at a time with SubSeq.        *)
(* A Python float is an exact decimal [m, e] standing for m / 10^e, kept   *)
(* in lowest form so that record equality is numeric equality; for the     *)
(* short literals of the model (at most 9 significant digits) a double     *)
(* distinguishes exactly the same values.  An Optional[float] carries the  *)
(* flag ok, FALSE standing for None.                                       *)
(***************************************************************************)
EXTENDS Integers, Sequences, FiniteSets, TLC

VARIABLES pc, fn, arg, ret, calls

vars == <<pc, fn, arg, ret, calls>>

(***************************************************************************)
(* Bounds of the model.                                                    *)
(***************************************************************************)
MaxNumLen == 5

MaxAmount == 3

MaxScale == 1

MaxCalls == 2

MaxExtraWords == 1

\* ------------------------------------------------------------ strings

\* Body applied to the value of v: a local name, its value computed once and
\* before Body is
With(v, Body(_)) == CHOOSE r \in {Body(x) : x \in {v}} : TRUE

Char(s, i) == SubSeq(s, i, i)

Min(a, b) == IF a < b THEN a ELSE b

\* the least and the greatest number of a non-empty set
Least(S) == CHOOSE i \in S : \A j \in S : i <= j

Greatest(S) == CHOOSE i \in S : \A j \in S : j <= i

\* "".join(pieces[lo..hi])
RECURSIVE Concat(_, _, _)
Concat(pieces, lo, hi) ==
  IF lo > hi THEN ""
  ELSE IF lo = hi THEN pieces[lo]
  ELSE Concat(pieces, lo, (lo + hi) \div 2) \o Concat(pieces, (lo + hi) \div 2 + 1, hi)

\* lists[lo] \o ... \o lists[hi]
RECURSIVE Flatten(_, _, _)
Flatten(lists, lo, hi) ==
  IF lo > hi THEN <<>>
  ELSE IF lo = hi THEN lists[lo]
  ELSE Flatten(lists, lo, (lo + hi) \div 2) \o Flatten(lists, (lo + hi) \div 2 + 1, hi)

\* the k-th number of the set S, counted from the least
Nth(S, k) == CHOOSE p \in S : Cardinality({q \in S : q < p}) = k - 1

Digits == {"0", "1", "2", "3", "4", "5", "6", "7", "8", "9"}

IsDigit(c) == c \in Digits

DigitVal(c) ==
  CASE c = "0" -> 0 [] c = "1" -> 1 [] c = "2" -> 2 [] c = "3" -> 3
    [] c = "4" -> 4 [] c = "5" -> 5 [] c = "6" -> 6 [] c = "7" -> 7
    [] c = "8" -> 8 [] c = "9" -> 9

\* re.search(r"\d", s)
HasDigit(s) == \E i \in 1..Len(s) : IsDigit(Char(s, i))

\* c in text  (str.__contains__ for a single character)
HasChar(s, c) == \E i \in 1..Len(s) : Char(s, i) = c

\* pat in text  (str.__contains__)
Contains(s, pat) ==
  \E i \in 1..(Len(s) - Len(pat) + 1) : SubSeq(s, i, i + Len(pat) - 1) = pat

\* str.rfind(c), 1-based; 0 when c does not occur
RFind(s, c) ==
  With({i \in 1..Len(s) : Char(s, i) = c},
       LAMBDA hits : IF hits = {} THEN 0 ELSE Greatest(hits))

\* str.replace(c, d) for a single character c
Replace(s, c, d) ==
  Concat([i \in 1..Len(s) |-> IF Char(s, i) = c THEN d ELSE Char(s, i)], 1, Len(s))

\* the characters of s that lie in keep, in order  (re.sub of a negated class)
KeepChars(s, keep) ==
  Concat([i \in 1..Len(s) |-> IF Char(s, i) \in keep THEN Char(s, i) ELSE ""], 1, Len(s))

WhiteSpace == {" ", "\t", "\n", "\r"}

\* str.strip()
Strip(s) ==
  With({i \in 1..Len(s) : Char(s, i) \notin WhiteSpace},
       LAMBDA inked : IF inked = {} THEN "" ELSE SubSeq(s, Least(inked), Greatest(inked)))

\* an Optional[str]
Str(s) == [none |-> FALSE, s |-> s]

NoStr == [none |-> TRUE, s |-> ""]

\* ------------------------------------------------------------ floats

None == [ok |-> FALSE, m |-> 0, e |-> 0]

RECURSIVE Lowest(_, _)
Lowest(m, e) ==
  IF e > 0 /\ m % 10 = 0 THEN Lowest(m \div 10, e - 1)
  ELSE [ok |-> TRUE, m |-> m, e |-> e]

\* the float m / 10^e
Float(m, e) == IF m = 0 THEN [ok |-> TRUE, m |-> 0, e |-> 0] ELSE Lowest(m, e)

Zero == Float(0, 0)

Abs(n) == IF n < 0 THEN -n ELSE n

\* the integer written by the digits of s, other characters skipped
RECURSIVE DigitsValue(_, _)
DigitsValue(s, acc) ==
  IF s = "" THEN acc
  ELSE DigitsValue(Tail(s), IF IsDigit(Head(s)) THEN acc * 10 + DigitVal(Head(s)) ELSE acc)

CountChar(s, c) == Cardinality({i \in 1..Len(s) : Char(s, i) = c})

\* the outcome of a call: a returned value, or an exception leaving the function
Return(v) == [raised |-> FALSE, val |-> v]

Raise == [raised |-> TRUE, val |-> None]

\* float(s) for s over [0-9.-]: an optional leading minus, digits with at most
\* one point and at least one digit; anything else raises ValueError
PyFloat(s) ==
  LET neg  == s # "" /\ Head(s) = "-"
      body == IF neg THEN Tail(s) ELSE s
      dot  == RFind(body, ".")
  IN IF \/ HasChar(body, "-")
        \/ CountChar(body, ".") > 1
        \/ ~ \E i \in 1..Len(body) : IsDigit(Char(body, i))
     THEN Raise
     ELSE Return(Float((IF neg THEN -1 ELSE 1) * DigitsValue(body, 0),
                       IF dot = 0 THEN 0 ELSE Len(body) - dot))

\* ------------------------------------------------------------ parse_number

NumKeep == Digits \cup {"-", ",", "."}

\* re.search(r",\d{1,3}$", s)
CommaTail(s) ==
  \E k \in 1..3 :
    /\ Len(s) >= k + 1
    /\ Char(s, Len(s) - k) = ","
    /\ \A i \in (Len(s) - k + 1)..Len(s) : IsDigit(Char(s, i))

\* NumSeparators with the comparison of the two positions reversed
NumSeparatorsLeftmost(s) ==
  IF HasChar(s, ",") /\ HasChar(s, ".")
  THEN IF RFind(s, ".") < RFind(s, ",")
       THEN Replace(s, ",", "")
       ELSE Replace(Replace(s, ".", ""), ",", ".")
  ELSE IF HasChar(s, ",") /\ ~ HasChar(s, ".")
  THEN IF CommaTail(s)
       THEN Replace(Replace(s, ".", ""), ",", ".")
       ELSE Replace(s, ",", "")
  ELSE Replace(s, ",", "")

\* parser.py lines 46-59: the separators rewritten so that float() can read s
NumSeparators(s) ==
  IF HasChar(s, ",") /\ HasChar(s, ".")
  THEN IF RFind(s, ".") > RFind(s, ",")
       THEN Replace(s, ",", "")
       ELSE Replace(Replace(s, ".", ""), ",", ".")
  ELSE IF HasChar(s, ",") /\ ~ HasChar(s, ".")
  THEN IF CommaTail(s)
       THEN Replace(Replace(s, ".", ""), ",", ".")
       ELSE Replace(s, ",", "")
  ELSE Replace(s, ",", "")

\* float(s) with the try/except around it left out
FloatUnguarded(s) == PyFloat(s)

\* try: return float(s) / except Exception: return None
FloatOrNone(s) == With(PyFloat(s), LAMBDA r : IF r.raised THEN Return(None) ELSE r)

\* parse_number(raw); raw is [none |-> BOOLEAN, s |-> STRING]
parse_number(raw) ==
  IF raw.none THEN Return(None)
  ELSE With(Strip(raw.s),
            LAMBDA s0 :
              IF s0 = "" THEN Return(None)
              ELSE With(KeepChars(s0, NumKeep),
                        LAMBDA s1 :
                          IF s1 = "" \/ s1 \in {".", ",", "-", "-.", "-,"} THEN Return(None)
                          ELSE FloatOrNone(NumSeparators(s1))))

\* utils_numbers.py lines 28-42
ArSeparators(txt) ==
  IF HasChar(txt, ",") /\ HasChar(txt, ".")
  THEN IF RFind(txt, ".") > RFind(txt, ",")
       THEN Replace(txt, ",", "")
       ELSE Replace(Replace(txt, ".", ""), ",", ".")
  ELSE IF HasChar(txt, ",")
  THEN Replace(Replace(txt, ".", ""), ",", ".")
  ELSE txt

\* parse_ar_number(s)
parse_ar_number(raw) ==
  IF raw.none THEN Return(None)
  ELSE LET t0 == Strip(raw.s)
           t1 == KeepChars(Replace(Replace(t0, "$", ""), " ", ""), NumKeep)
       IN IF t0 = "" THEN Return(None)
          ELSE IF t1 \in {"", "-", ",", "."} THEN Return(None)
          ELSE FloatOrNone(ArSeparators(t1))

\* ------------------------------------------------------------ parse_cuit_digits

Letters ==
  {"A", "B", "C", "D", "E", "F", "G", "H", "I", "J", "K", "L", "M", "N", "O", "P",
   "Q", "R", "S", "T", "U", "V", "W", "X", "Y", "Z",
   "a", "b", "c", "d", "e", "f", "g", "h", "i", "j", "k", "l", "m", "n", "o", "p",
   "q", "r", "s", "t", "u", "v", "w", "x", "y", "z",
   "Á", "É", "Í", "Ó", "Ú", "Ñ", "á", "é", "í", "ó", "ú", "ñ"}

\* \w
IsWordChar(c) == IsDigit(c) \/ c \in Letters \/ c = "_"

\* \b between s[k] and s[k+1]  (k = 0: before the text, k = Len(s): after it)
WordBoundary(s, k) ==
  (k >= 1 /\ IsWordChar(Char(s, k))) # (k < Len(s) /\ IsWordChar(Char(s, k + 1)))

\* \d{n} at s[i .. i+n-1]
DigitRun(s, i, n) ==
  i >= 1 /\ i + n - 1 <= Len(s) /\ \A j \in i..(i + n - 1) : IsDigit(Char(s, j))

\* \D? at position i: the number of characters it takes.  It is greedy, and
\* giving the character back never helps, a digit being required next.
OptNonDigit(s, i) == IF i <= Len(s) /\ ~ IsDigit(Char(s, i)) THEN 1 ELSE 0

CuitLen == 11

CuitHead == 2

CuitBody == 8

\* \b(\d{2})\D?(\d{8})\D?(\d)\b matched with its first digit at i: the three
\* groups concatenated, "" when there is no match at i
CuitGroupsAt(s, i) ==
  LET j == i + CuitHead + OptNonDigit(s, i + CuitHead)
      k == j + CuitBody + OptNonDigit(s, j + CuitBody)
  IN IF /\ WordBoundary(s, i - 1)
        /\ DigitRun(s, i, CuitHead)
        /\ DigitRun(s, j, CuitBody)
        /\ DigitRun(s, k, 1)
        /\ WordBoundary(s, k)
     THEN SubSeq(s, i, i + CuitHead - 1) \o SubSeq(s, j, j + CuitBody - 1) \o Char(s, k)
     ELSE ""

\* re.search: the match that starts left-most
RECURSIVE CuitGroupsFrom(_, _)
CuitGroupsFrom(s, i) ==
  IF i > Len(s) THEN ""
  ELSE With(CuitGroupsAt(s, i),
            LAMBDA groups : IF groups # "" THEN groups ELSE CuitGroupsFrom(s, i + 1))

\* re.search(r"\b(\d{11})\b", s)
RECURSIVE CuitRunFrom(_, _)
CuitRunFrom(s, i) ==
  IF i > Len(s) THEN ""
  ELSE IF WordBoundary(s, i - 1) /\ DigitRun(s, i, CuitLen) /\ WordBoundary(s, i + CuitLen - 1)
  THEN SubSeq(s, i, i + CuitLen - 1)
  ELSE CuitRunFrom(s, i + 1)

\* d = re.sub(r"\D", "", s); d[:11] if len(d) >= 11 else d
CuitFallback(s) ==
  LET d == KeepChars(s, Digits)
  IN IF Len(d) >= CuitLen THEN SubSeq(d, 1, CuitLen) ELSE d

\* parse_cuit_digits with the two patterns left out
parse_cuit_digits_fallback_only(raw) ==
  IF raw.none THEN Return("") ELSE Return(CuitFallback(raw.s))

\* parse_cuit_digits(raw)
parse_cuit_digits(raw) ==
  IF raw.none THEN Return("")
  ELSE With(CuitGroupsFrom(raw.s, 1),
            LAMBDA groups :
              IF groups # "" THEN Return(groups)
              ELSE With(CuitRunFrom(raw.s, 1),
                        LAMBDA run :
                          IF run # "" THEN Return(run) ELSE Return(CuitFallback(raw.s))))

\* ------------------------------------------------------------ sign normalization

\* _neg_abs with the abs() left out: plain negation
NegateOnly(v) ==
  LET x == IF v.ok THEN v ELSE Zero
  IN Return(Float(-(x.m), x.e))

\* _neg_abs(v): -abs(float(v or 0.0)); for an Optional[float] neither float()
\* nor abs() raises, so the except branch is never taken
_neg_abs(v) ==
  LET x == IF v.ok /\ v.m # 0 THEN v ELSE Zero
  IN Return(Float(-Abs(x.m), x.e))

\* the set of the elements of a list
Range(seq) == {seq[i] : i \in 1..Len(seq)}

\* negativizar_importes with the abs() left out
NegateImportes(registro, campos_monetarios) ==
  [k \in DOMAIN registro |->
     IF k \in Range(campos_monetarios) /\ registro[k].ok
     THEN Float(-(registro[k].m), registro[k].e)
     ELSE registro[k]]

\* negativizar_importes(registro, campos_monetarios): the registro it leaves
negativizar_importes(registro, campos_monetarios) ==
  [k \in DOMAIN registro |->
     IF k \in Range(campos_monetarios) /\ registro[k].ok
     THEN Float(-Abs(registro[k].m), registro[k].e)
     ELSE registro[k]]

\* ------------------------------------------------------------ regular expressions
(***************************************************************************)
(* Python's re on the patterns of the parser.  A pattern is a sequence of  *)
(* items: a character class with its repetition bounds (greedy or lazy), a *)
(* group bracket, a literal or an anchor.  re matches by backtracking: the *)
(* items left to right, the repetition counts of a class in its order of   *)
(* preference (greedy: most first; lazy: fewest first), the first complete *)
(* match returned.  ReRun carries all the partial matches through the      *)
(* items, listed in the order backtracking would reach them, so that the   *)
(* first of the complete ones is the match re returns.                     *)
(***************************************************************************)

Unbounded == 100000

ReSet(cs, lo, hi) == <<[k |-> "set", cs |-> cs, neg |-> FALSE, lo |-> lo, hi |-> hi, lazy |-> FALSE]>>

ReNot(cs, lo, hi) == <<[k |-> "set", cs |-> cs, neg |-> TRUE, lo |-> lo, hi |-> hi, lazy |-> FALSE]>>

\* .*?  (any character but a newline, as few as possible)
ReLazyAny == <<[k |-> "set", cs |-> {"\n"}, neg |-> TRUE, lo |-> 0, hi |-> Unbounded, lazy |-> TRUE]>>

ReOpen(g) == <<[k |-> "open", g |-> g]>>

ReClose(g) == <<[k |-> "close", g |-> g]>>

\* ^ (without re.MULTILINE), $ and \b
ReBol == <<[k |-> "bol"]>>

ReEol == <<[k |-> "eol"]>>

ReWb == <<[k |-> "wb"]>>

LowerAlpha == "abcdefghijklmnopqrstuvwxyzáéíóúñ"

UpperAlpha == "ABCDEFGHIJKLMNOPQRSTUVWXYZÁÉÍÓÚÑ"

Plain == "ABCDEFGHIJKLMNOPQRSTUVWXYZAEIOUN"

AlphaIndex(alpha, c) ==
  LET hits == {i \in 1..Len(alpha) : Char(alpha, i) = c}
  IN IF hits = {} THEN 0 ELSE CHOOSE i \in hits : TRUE

AlphaChars == {Char(LowerAlpha, i) : i \in 1..Len(LowerAlpha)} \cup {Char(UpperAlpha, i) : i \in 1..Len(UpperAlpha)}

UpperMap ==
  [c \in AlphaChars |->
     IF AlphaIndex(LowerAlpha, c) = 0 THEN c ELSE Char(UpperAlpha, AlphaIndex(LowerAlpha, c))]

LowerMap ==
  [c \in AlphaChars |->
     IF AlphaIndex(UpperAlpha, c) = 0 THEN c ELSE Char(LowerAlpha, AlphaIndex(UpperAlpha, c))]

\* str.upper() and str.lower() of one character
UpperChar(c) == IF c \in AlphaChars THEN UpperMap[c] ELSE c

LowerChar(c) == IF c \in AlphaChars THEN LowerMap[c] ELSE c

\* str.lower()
Lower(s) == Concat([i \in 1..Len(s) |-> LowerChar(Char(s, i))], 1, Len(s))

\* a literal text, and the same under re.IGNORECASE
ReLit(t) == <<[k |-> "lit", t |-> t, ci |-> FALSE]>>

ReLitI(t) == <<[k |-> "lit", t |-> Lower(t), ci |-> TRUE]>>

\* the literal of item stands at position i of s
LitAt(item, s, i) ==
  /\ i + Len(item.t) - 1 <= Len(s)
  /\ LET here == SubSeq(s, i, i + Len(item.t) - 1)
     IN IF item.ci THEN Lower(here) = item.t ELSE here = item.t

InClass(item, c) == (c \in item.cs) # item.neg

\* how many characters from position i on lie in the class, up to item.hi
ClassRun(item, s, i) ==
  With(Min(Len(s), i + item.hi - 1),
       LAMBDA top :
         With({j \in i..top : ~ InClass(item, Char(s, j))},
              LAMBDA others : (IF others = {} THEN top + 1 ELSE Least(others)) - i))

NoCaps == [g \in 1..6 |-> <<0, 0>>]

ReFail == [ok |-> FALSE, start |-> 0, end |-> 0, caps |-> NoCaps]

\* $: at the end of the text, or just before a newline that ends it
AtEol(s, i) == i = Len(s) + 1 \/ (i = Len(s) /\ Char(s, i) = "\n")

\* A partial match t: it began at t.start, has matched up to t.i and has set
\* the groups t.caps.  ReStep lists the ways t goes on through one item, in
\* the order re tries them: a greedy class takes the most characters first,
\* a lazy one the fewest.
ReStep(item, s, t) ==
  CASE item.k = "open" -> <<[t EXCEPT !.caps[item.g] = <<t.i, t.i>>]>>
    [] item.k = "close" -> <<[t EXCEPT !.caps[item.g] = <<t.caps[item.g][1], t.i>>]>>
    [] item.k = "bol" -> IF t.i = 1 THEN <<t>> ELSE <<>>
    [] item.k = "eol" -> IF AtEol(s, t.i) THEN <<t>> ELSE <<>>
    [] item.k = "wb" -> IF WordBoundary(s, t.i - 1) THEN <<t>> ELSE <<>>
    [] item.k = "lit" ->
         IF LitAt(item, s, t.i) THEN <<[t EXCEPT !.i = t.i + Len(item.t)]>> ELSE <<>>
    [] item.k = "set" ->
         With(ClassRun(item, s, t.i),
              LAMBDA most :
                IF most < item.lo THEN <<>>
                ELSE [j \in 1..(most - item.lo + 1) |->
                        [t EXCEPT !.i = t.i + (IF item.lazy THEN item.lo + j - 1
                                                            ELSE most - j + 1)]])

\* of the partial matches that stand at the same position, the first: what
\* follows depends on the position alone, so the later ones can only repeat
\* its failure or come after its success
ReFirstAt(ts) ==
  Flatten([j \in 1..Len(ts) |->
             IF \E q \in 1..(j - 1) : ts[q].i = ts[j].i THEN <<>> ELSE <<ts[j]>>],
          1, Len(ts))

\* the partial matches ts taken through the items lo..hi of re, kept in the
\* order in which re's backtracking reaches them
RECURSIVE ReRun(_, _, _, _, _)
ReRun(re, s, lo, hi, ts) ==
  IF ts = <<>> \/ lo > hi THEN ts
  ELSE IF lo = hi
  THEN ReFirstAt(Flatten([j \in 1..Len(ts) |-> ReStep(re[lo], s, ts[j])], 1, Len(ts)))
  ELSE With(ReRun(re, s, lo, (lo + hi) \div 2, ts),
            LAMBDA us : ReRun(re, s, (lo + hi) \div 2 + 1, hi, us))

\* re.search(re, s) from position from on: the match that starts left-most
\* and that backtracking finds first
ReSearchFrom(re, s, from) ==
  IF from > Len(s) + 1 THEN ReFail
  ELSE With(ReRun(re, s, 1, Len(re),
                  [j \in 1..(Len(s) + 2 - from) |->
                     [start |-> from + j - 1, i |-> from + j - 1, caps |-> NoCaps]]),
            LAMBDA ts :
              IF ts = <<>> THEN ReFail
              ELSE [ok |-> TRUE, start |-> ts[1].start, end |-> ts[1].i,
                    caps |-> ts[1].caps])

ReSearch(re, s) == ReSearchFrom(re, s, 1)

\* m.group(g)
ReGroup(s, r, g) == SubSeq(s, r.caps[g][1], r.caps[g][2] - 1)

\* m.group(0)
ReWhole(s, r) == SubSeq(s, r.start, r.end - 1)

\* re.findall / re.finditer: the matches left to right, none overlapping
RECURSIVE ReFindAll(_, _, _)
ReFindAll(re, s, from) ==
  With(ReSearchFrom(re, s, from),
       LAMBDA r :
         IF ~ r.ok THEN <<>>
         ELSE <<r>> \o ReFindAll(re, s, IF r.end > r.start THEN r.end ELSE r.end + 1))

\* ------------------------------------------------------------ text helpers

\* str.find(pat), 1-based; 0 when pat does not occur
Find(s, pat) ==
  LET hits == {i \in 1..(Len(s) - Len(pat) + 1) : SubSeq(s, i, i + Len(pat) - 1) = pat}
  IN IF hits = {} THEN 0 ELSE CHOOSE i \in hits : \A j \in hits : i <= j

\* str.find(pat, from), 1-based; 0 when pat does not occur at or after from
FindFrom(s, pat, from) ==
  LET hits == {i \in from..(Len(s) - Len(pat) + 1) : SubSeq(s, i, i + Len(pat) - 1) = pat}
  IN IF hits = {} THEN 0 ELSE CHOOSE i \in hits : \A j \in hits : i <= j

\* s[from:] in 1-based positions
From(s, i) == SubSeq(s, i, Len(s))

\* s.split("\n") (for the texts of the model also s.splitlines(), up to a last
\* empty piece, which every caller either drops or never reaches)
SplitLines(s) ==
  With({0, Len(s) + 1} \cup {i \in 1..Len(s) : Char(s, i) = "\n"},
       LAMBDA cuts :
         Flatten([k \in 1..(Cardinality(cuts) - 1) |->
                    <<SubSeq(s, Nth(cuts, k) + 1, Nth(cuts, k + 1) - 1)>>],
                 1, Cardinality(cuts) - 1))

\* re.sub(r"\s+", " ", s): every run of white space becomes one space
Collapse(s) ==
  Concat([i \in 1..Len(s) |->
            IF Char(s, i) \notin WhiteSpace THEN Char(s, i)
            ELSE IF i = 1 \/ Char(s, i - 1) \notin WhiteSpace THEN " " ELSE ""],
         1, Len(s))

\* str.upper()
Upper(s) == Concat([i \in 1..Len(s) |-> UpperChar(Char(s, i))], 1, Len(s))

FoldMap ==
  [c \in AlphaChars |->
     IF AlphaIndex(LowerAlpha, c) # 0 THEN Char(Plain, AlphaIndex(LowerAlpha, c))
     ELSE Char(Plain, AlphaIndex(UpperAlpha, c))]

\* NFKD, combining marks dropped, upper case: of one character
FoldChar(c) == IF c \in AlphaChars THEN FoldMap[c] ELSE c

Fold(s) == Concat([i \in 1..Len(s) |-> FoldChar(Char(s, i))], 1, Len(s))

\* _norm(s): upper case, accents removed, white space normalized
_norm(s) == Collapse(Fold(Strip(s)))

\* [l.strip() for l in txt.split("\n") if l.strip()]
StrippedOf(lines) ==
  Flatten([i \in 1..Len(lines) |->
             With(Strip(lines[i]), LAMBDA l : IF l = "" THEN <<>> ELSE <<l>>)],
          1, Len(lines))

StrippedLines(txt) == StrippedOf(SplitLines(txt))

\* "\n".join(lines)
Join(lines, sep) ==
  Concat([i \in 1..Len(lines) |-> IF i = 1 THEN lines[i] ELSE sep \o lines[i]],
         1, Len(lines))

ReWs0 == ReSet(WhiteSpace, 0, Unbounded)

ReWs1 == ReSet(WhiteSpace, 1, Unbounded)

\* ------------------------------------------------------------ parties

Party(rs, dom, loc, cuit, iva) ==
  [razon_social |-> rs, domicilio |-> dom, localidad |-> loc, cuit |-> cuit, iva |-> iva]

EmptyParty == Party("", "", "", "", "")

ReRestOfLine0 == ReNot({"\n"}, 0, Unbounded)

ReRestOfLine1 == ReNot({"\n"}, 1, Unbounded)

\* Raz[oó]n\s+Social
ReRazonSocial ==
  ReLitI("Raz") \o ReSet({"o", "ó", "O", "Ó"}, 1, 1) \o ReLitI("n") \o ReWs1 \o ReLitI("Social")

\* Raz[oó]n\s+Social\s*:\s*(.*)$
ReRazonLabel ==
  ReRazonSocial \o ReWs0 \o ReLit(":") \o ReWs0
    \o ReOpen(1) \o ReRestOfLine0 \o ReClose(1) \o ReEol

\* Domicilio\s*:\s*(.*)$
ReDomicilioLabel ==
  ReLitI("Domicilio") \o ReWs0 \o ReLit(":") \o ReWs0
    \o ReOpen(1) \o ReRestOfLine0 \o ReClose(1) \o ReEol

\* ^(Localidad|C\.U\.I\.T|I\.V\.A|IIBB|Ingresos\s+Brutos)\b, one pattern for
\* each alternative
DomicilioStops ==
  {ReBol \o ReLitI("Localidad") \o ReWb,
   ReBol \o ReLitI("C.U.I.T") \o ReWb,
   ReBol \o ReLitI("I.V.A") \o ReWb,
   ReBol \o ReLitI("IIBB") \o ReWb,
   ReBol \o ReLitI("Ingresos") \o ReWs1 \o ReLitI("Brutos") \o ReWb}

\* ^(Domicilio|Localidad|C\.U\.I\.T|I\.V\.A|IIBB|Ingresos\s+Brutos)\b
RazonStops == {ReBol \o ReLitI("Domicilio") \o ReWb} \cup DomicilioStops

\* the four label patterns that end a wrapped value (parser.py lines 210-217)
LabelBreaks ==
  {ReWb \o ReRazonSocial \o ReWb \o ReWs0 \o ReLit(":"),
   ReWb \o ReLitI("Domicilio") \o ReWb \o ReWs0 \o ReLit(":"),
   ReWb \o ReLitI("C.U.I.T") \o ReWb,
   ReWb \o ReLitI("I.V.A") \o ReWb}

ReAny(res, s) == \E re \in res : ReSearch(re, s).ok

\* the while loop of _take_multiline_value: the lines appended to val
RECURSIVE TakeContinuation(_, _, _, _)
TakeContinuation(lines, j, val, stops) ==
  IF j > Len(lines) THEN val
  ELSE IF \/ ReAny(stops, lines[j])
          \/ ReAny(LabelBreaks, lines[j])
          \/ HasChar(lines[j], ":")
  THEN val
  ELSE TakeContinuation(lines, j + 1,
                        IF val # "" THEN Strip(val \o " " \o lines[j]) ELSE lines[j], stops)

\* _take_multiline_value(label_regex, stop_regex), from line i on
RECURSIVE TakeMultilineValue(_, _, _, _)
TakeMultilineValue(lines, i, label, stops) ==
  IF i > Len(lines) THEN ""
  ELSE With(ReSearch(label, lines[i]),
            LAMBDA m :
              IF ~ m.ok THEN TakeMultilineValue(lines, i + 1, label, stops)
              ELSE Strip(Collapse(
                     TakeContinuation(lines, i + 1, Strip(ReGroup(lines[i], m, 1)), stops))))

\* _rgx_first(pat)
RgxFirst(re, txt) ==
  With(ReSearch(re, txt), LAMBDA m : IF m.ok THEN Strip(ReGroup(txt, m, 1)) ELSE "")

\* Localidad\s*:\s*([^\n]+)
ReLocalidad ==
  ReLitI("Localidad") \o ReWs0 \o ReLit(":") \o ReWs0
    \o ReOpen(1) \o ReRestOfLine1 \o ReClose(1)

\* C\.U\.I\.T\.?\s*:?\s*([^\n]+)
ReCuitLabel ==
  ReLitI("C.U.I.T") \o ReSet({"."}, 0, 1) \o ReWs0 \o ReSet({":"}, 0, 1) \o ReWs0
    \o ReOpen(1) \o ReRestOfLine1 \o ReClose(1)

\* I\.V\.A\.?\s*:?\s*([^\n]+)
ReIvaLabel ==
  ReLitI("I.V.A") \o ReSet({"."}, 0, 1) \o ReWs0 \o ReSet({":"}, 0, 1) \o ReWs0
    \o ReOpen(1) \o ReRestOfLine1 \o ReClose(1)

CutLabels == <<"RAZON SOCIAL", "DOMICILIO", "C.U.I.T", "I.V.A", "LOCALIDAD">>

RECURSIVE CutAt(_, _)
CutAt(v2, labs) ==
  IF labs = <<>> THEN v2
  ELSE With(Find(_norm(v2), Head(labs)),
            LAMBDA pos : CutAt(IF pos > 1 THEN Strip(SubSeq(v2, 1, pos - 1)) ELSE v2, Tail(labs)))

\* _cut_at_labels(v)
CutAtLabels(v) ==
  With(Strip(v), LAMBDA v2 : IF v2 = "" THEN "" ELSE Strip(Collapse(CutAt(v2, CutLabels))))

\* _party_from_text(side_text)
_party_from_text(side_text) ==
  IF side_text = "" THEN EmptyParty
  ELSE With(Replace(side_text, "\r", "\n"),
            LAMBDA txt :
              With(StrippedLines(txt),
                   LAMBDA lines :
                     Party(CutAtLabels(TakeMultilineValue(lines, 1, ReRazonLabel, RazonStops)),
                           CutAtLabels(TakeMultilineValue(lines, 1, ReDomicilioLabel, DomicilioStops)),
                           RgxFirst(ReLocalidad, txt),
                           parse_cuit_digits(Str(RgxFirst(ReCuitLabel, txt))).val,
                           RgxFirst(ReIvaLabel, txt))))

\* ------------------------------------------------------------ layout

LineTolerance == 3

BandHeight == 180

\* (top, x0) of a before (top, x0) of b
WordBefore(a, b) == a.top < b.top \/ (a.top = b.top /\ a.x0 < b.x0)

\* w put into the sorted list ws after every word that is not after it
RECURSIVE InsertWord(_, _)
InsertWord(ws, w) ==
  IF ws = <<>> THEN <<w>>
  ELSE IF WordBefore(w, Head(ws)) THEN <<w>> \o ws
  ELSE <<Head(ws)>> \o InsertWord(Tail(ws), w)

\* sorted(words, key=lambda w: (top, x0)): a stable sort
RECURSIVE SortWords(_)
SortWords(words) ==
  IF words = <<>> THEN <<>>
  ELSE InsertWord(SortWords(SubSeq(words, 1, Len(words) - 1)), words[Len(words)])

\* the loop of _group_words_to_lines: the lines of texts, current being the
\* line under construction
RECURSIVE GroupLoop(_, _, _)
GroupLoop(ws, current, current_top) ==
  IF ws = <<>> THEN (IF current = <<>> THEN <<>> ELSE <<current>>)
  ELSE IF Abs(Head(ws).top - current_top) > LineTolerance
  THEN (IF current = <<>> THEN <<>> ELSE <<current>>)
         \o GroupLoop(Tail(ws), <<Head(ws).text>>, Head(ws).top)
  ELSE GroupLoop(Tail(ws), Append(current, Head(ws).text), current_top)

JoinedLines(lines) ==
  Flatten([i \in 1..Len(lines) |->
             With(Strip(Join(lines[i], " ")),
                  LAMBDA txt : IF txt = "" THEN <<>> ELSE <<txt>>)],
          1, Len(lines))

\* _group_words_to_lines(words)
_group_words_to_lines(words) ==
  IF words = <<>> THEN <<>>
  ELSE With(SortWords(words), LAMBDA ws : JoinedLines(GroupLoop(ws, <<>>, ws[1].top)))

\* the x0 of the first word whose normalized text is token; -1 when none
FirstX0(words, token) ==
  With({i \in 1..Len(words) : _norm(words[i].text) = token},
       LAMBDA hits :
         IF hits = {} THEN -1 ELSE words[CHOOSE i \in hits : \A j \in hits : i <= j].x0)

\* find_top(token); -1 when no word is the token
FindTop(words, token) ==
  With({words[i].top : i \in {j \in 1..Len(words) : _norm(words[j].text) = _norm(token)}},
       LAMBDA tops : IF tops = {} THEN -1 ELSE CHOOSE t \in tops : \A u \in tops : t <= u)

\* twice x_split (the midpoint of two integers need not be an integer)
XSplit2(page) ==
  With(FirstX0(page.words, "COMPRADOR"),
       LAMBDA comprador_x0 :
         With(FirstX0(page.words, "VENDEDOR"),
              LAMBDA vendedor_x0 :
                IF comprador_x0 # -1 /\ vendedor_x0 # -1 /\ vendedor_x0 > comprador_x0
                THEN comprador_x0 + vendedor_x0
                ELSE page.width))

YStart(page) ==
  With(FindTop(page.words, "COMPRADOR"), LAMBDA y_compr : IF y_compr # -1 THEN y_compr ELSE 0)

\* find_top("ACTUÓ") or find_top("ACTUO"): both tokens normalize to ACTUO
YEnd(page) ==
  With(FindTop(page.words, "ACTUÓ"),
       LAMBDA y_actuo : IF y_actuo # -1 THEN y_actuo ELSE YStart(page) + BandHeight)

BlockWords(page) ==
  With(YStart(page),
       LAMBDA y_start :
         With(YEnd(page),
              LAMBDA y_end : SelectSeq(page.words, LAMBDA w : w.top >= y_start /\ w.top <= y_end)))

\* LeftWords with the word on the split line taken into the left block too
LeftWordsInclusive(page) ==
  With(XSplit2(page), LAMBDA x_split2 : SelectSeq(BlockWords(page), LAMBDA w : 2 * w.x0 <= x_split2))

LeftWords(page) ==
  With(XSplit2(page), LAMBDA x_split2 : SelectSeq(BlockWords(page), LAMBDA w : 2 * w.x0 < x_split2))

RightWords(page) ==
  With(XSplit2(page), LAMBDA x_split2 : SelectSeq(BlockWords(page), LAMBDA w : 2 * w.x0 >= x_split2))

LeftText(page) == Join(_group_words_to_lines(LeftWords(page)), "\n")

RightText(page) == Join(_group_words_to_lines(RightWords(page)), "\n")

\* page.width of a page that has none: float(None) raises TypeError
NoWidth == -1

\* _extract_parties_from_layout(page): (acopio, comprador, vendedor)
_extract_parties_from_layout(page) ==
  IF page.width = NoWidth THEN Raise
  ELSE With(_party_from_text(LeftText(page)),
            LAMBDA comprador :
              Return([acopio |-> comprador, comprador |-> comprador,
                      vendedor |-> _party_from_text(RightText(page))]))

\* ------------------------------------------------------------ document

\* parse_number(text) or 0.0
NumberOrZero(text) ==
  With(parse_number(Str(text)).val, LAMBDA v : IF v.ok THEN v ELSE Zero)

\* [parse_number(t) for t in toks], the None results dropped
ParsedNumbers(toks) ==
  Flatten([i \in 1..Len(toks) |->
             With(parse_number(Str(toks[i])).val,
                  LAMBDA v : IF v.ok THEN <<v>> ELSE <<>>)],
          1, Len(toks))

\* [-–—]: the texts of the model write every dash as a hyphen
ReDash == ReSet({"-"}, 1, 1)

\* CONDICIONES DE LA OPERACION\s*[-–—]\s*AJUSTE CREDITO
ReCondicionesNorm ==
  ReLit("CONDICIONES DE LA OPERACION") \o ReWs0 \o ReDash \o ReWs0 \o ReLit("AJUSTE CREDITO")

\* _is_nc with either of the two texts being enough
IsNcEither(full_text_norm) ==
  ReSearch(ReCondicionesNorm, full_text_norm).ok \/ Contains(full_text_norm, "AJUSTE UNIFICADO")

\* _is_nc with the phrase looked for with one space on each side of a hyphen
IsNcSpaced(full_text_norm) ==
  /\ Contains(full_text_norm, "CONDICIONES DE LA OPERACION - AJUSTE CREDITO")
  /\ Contains(full_text_norm, "AJUSTE UNIFICADO")

\* _is_nc(full_text_norm)
_is_nc(full_text_norm) ==
  ReSearch(ReCondicionesNorm, full_text_norm).ok /\ Contains(full_text_norm, "AJUSTE UNIFICADO")

\* detectar_nc_liquidacion(texto)
detectar_nc_liquidacion(texto) ==
  With(Upper(texto),
       LAMBDA t :
         Contains(t, "CONDICIONES DE LA OPERACIÓN - AJUSTE CRÉDITO") /\ Contains(t, "AJUSTE UNIFICADO"))

\* _detect_tipo_cbte that never reports a secondary settlement
DetectAlwaysF1(full_text_norm) == "F1"

\* _detect_tipo_cbte(full_text_norm)
_detect_tipo_cbte(full_text_norm) ==
  IF Contains(full_text_norm, "LIQUIDACION SECUNDARIA") THEN "F2" ELSE "F1"

\* C\.O\.E\.\s*:\s*([0-9]{8,})
ReCoe ==
  ReLitI("C.O.E.") \o ReWs0 \o ReLit(":") \o ReWs0
    \o ReOpen(1) \o ReSet(Digits, 8, Unbounded) \o ReClose(1)

\* coe, pv, numero with every digit after the fourth taken for the numero
CoeFieldsNumeroRest(full_text) ==
  With(ReSearch(ReCoe, full_text),
       LAMBDA mcoe :
         With(IF mcoe.ok THEN Strip(ReGroup(full_text, mcoe, 1)) ELSE "",
              LAMBDA coe :
                [coe |-> coe,
                 pv |-> IF Len(coe) >= 4 THEN SubSeq(coe, 1, 4) ELSE "",
                 numero |-> IF Len(coe) > 4 THEN SubSeq(coe, 5, Len(coe)) ELSE ""]))

\* parser.py lines 705-709: coe, pv, numero
CoeFields(full_text) ==
  With(ReSearch(ReCoe, full_text),
       LAMBDA mcoe :
         With(IF mcoe.ok THEN Strip(ReGroup(full_text, mcoe, 1)) ELSE "",
              LAMBDA coe :
                [coe |-> coe,
                 pv |-> IF Len(coe) >= 4 THEN SubSeq(coe, 1, 4) ELSE "",
                 numero |-> IF Len(coe) >= 12 THEN SubSeq(coe, 5, 12)
                            ELSE IF Len(coe) > 4 THEN SubSeq(coe, 5, Len(coe)) ELSE ""]))

\* (kilos, precio, neto, alic, iva, total)
Operation(kilos, precio, neto, alic, iva, total) ==
  [kilos |-> kilos, precio |-> precio, neto |-> neto, alic |-> alic, iva |-> iva, total |-> total]

\* [0-9][0-9.,]*
ReAmount == ReSet(Digits, 1, 1) \o ReSet(Digits \cup {".", ","}, 0, Unbounded)

\* [-]?\d[\d.,]*
ReSignedAmount == ReSet({"-"}, 0, 1) \o ReAmount

\* \s*\$?\s*
ReOptDollar == ReWs0 \o ReSet({"$"}, 0, 1) \o ReWs0

\* the pattern of _extract_operation_numbers_standard
ReOperationStandard ==
  ReLit("\n") \o ReWs0 \o ReOpen(1) \o ReAmount \o ReClose(1) \o ReWs0 \o ReLitI("Kg")
    \o ReOptDollar \o ReOpen(2) \o ReAmount \o ReClose(2)
    \o ReOptDollar \o ReOpen(3) \o ReAmount \o ReClose(3)
    \o ReWs0 \o ReOpen(4) \o ReAmount \o ReClose(4)
    \o ReOptDollar \o ReOpen(5) \o ReAmount \o ReClose(5)
    \o ReOptDollar \o ReOpen(6) \o ReAmount \o ReClose(6)

\* _extract_operation_numbers_standard with the usual rate for a line that
\* is not found
OperationStandardDefaultRate(page_text) ==
  With(ReSearch(ReOperationStandard, page_text),
       LAMBDA m :
         IF ~ m.ok THEN Operation(Zero, Zero, Zero, Float(105, 1), Zero, Zero)
         ELSE With([g \in 1..6 |-> NumberOrZero(ReGroup(page_text, m, g))],
                   LAMBDA n : Operation(n[1], n[2], n[3], n[4], n[5], n[6])))

\* _extract_operation_numbers_standard(page_text)
_extract_operation_numbers_standard(page_text) ==
  With(ReSearch(ReOperationStandard, page_text),
       LAMBDA m :
         IF ~ m.ok THEN Operation(Zero, Zero, Zero, Zero, Zero, Zero)
         ELSE With([g \in 1..6 |-> NumberOrZero(ReGroup(page_text, m, g))],
                   LAMBDA n : Operation(n[1], n[2], n[3], n[4], n[5], n[6])))

\* CONDICIONES DE LA OPERACI[ÓO]N under re.IGNORECASE
ReCondiciones ==
  ReLitI("CONDICIONES DE LA OPERACI") \o ReSet({"Ó", "O", "ó", "o"}, 1, 1) \o ReLitI("N")

\* CONDICIONES DE LA OPERACI[ÓO]N\s*[-–—]\s*AJUSTE CR[ÉE]DITO
ReAjusteCreditoStart ==
  ReCondiciones \o ReWs0 \o ReDash \o ReWs0
    \o ReLitI("AJUSTE CR") \o ReSet({"É", "E", "é", "e"}, 1, 1) \o ReLitI("DITO")

\* \n\s*CONDICIONES DE LA OPERACI[ÓO]N\b
ReNextCondiciones == ReLit("\n") \o ReWs0 \o ReCondiciones \o ReWb

\* \bOPERACI[ÓO]N\b
ReOperacionWord ==
  ReWb \o ReLitI("OPERACI") \o ReSet({"Ó", "O", "ó", "o"}, 1, 1) \o ReLitI("N") \o ReWb

\* \bKg\b
ReKgWord == ReWb \o ReLitI("Kg") \o ReWb

\* [f(x) for x in lines] with f = re.sub(r"\s+", " ", .)
CollapseAll(lines) ==
  Flatten([i \in 1..Len(lines) |-> <<Collapse(lines[i])>>], 1, Len(lines))

\* the index of the first line from i to last for which Test holds, else 0
FirstLine(lines, i, last, Test(_)) ==
  LET hits == {k \in i..last : Test(lines[k])}
  IN IF hits = {} THEN 0 ELSE CHOOSE k \in hits : \A j \in hits : k <= j

\* re.findall(re, s) for a pattern without groups
MatchedTexts(re, s) ==
  With(ReFindAll(re, s, 1), LAMBDA ms : [i \in 1..Len(ms) |-> ReWhole(s, ms[i])])

\* an Optional[Tuple]: the operation, or None
NoOperation == [found |-> FALSE, op |-> Operation(Zero, Zero, Zero, Zero, Zero, Zero)]

SomeOperation(op) == [found |-> TRUE, op |-> op]

AlicDefault == Float(105, 1)

\* the operation read from the data line with the fourth number always
\* taken for the rate
OperationFromLineRateFourth(line) ==
  With(ParsedNumbers(MatchedTexts(ReSignedAmount, line)),
       LAMBDA vals :
         IF Len(vals) < 5 THEN NoOperation
         ELSE SomeOperation(Operation(vals[1], vals[2], vals[3], vals[4], vals[5],
                                      vals[Min(6, Len(vals))])))

\* parser.py lines 408-428: the operation read from the data line
OperationFromLine(line) ==
  With(ParsedNumbers(MatchedTexts(ReSignedAmount, line)),
       LAMBDA vals :
         IF Len(vals) < 5 THEN NoOperation
         ELSE IF Len(vals) >= 6
         THEN SomeOperation(Operation(vals[1], vals[2], vals[3], vals[4], vals[5], vals[6]))
         ELSE SomeOperation(Operation(vals[1], vals[2], vals[3], AlicDefault, vals[4], vals[5])))

\* parser.py lines 393-406: the first line with the word OPERACION, then the
\* first of the eleven lines after it that holds Kg and a digit
OperationFromLines(lines) ==
  With(FirstLine(lines, 1, Len(lines), LAMBDA ln : ReSearch(ReOperacionWord, ln).ok),
       LAMBDA op_idx :
         IF op_idx = 0 THEN NoOperation
         ELSE With(FirstLine(lines, op_idx + 1, Min(Len(lines), op_idx + 11),
                             LAMBDA ln : ReSearch(ReKgWord, ln).ok /\ HasDigit(ln)),
                   LAMBDA j : IF j = 0 THEN NoOperation ELSE OperationFromLine(lines[j])))

\* _extract_operation_from_ajuste_credito(full_text)
_extract_operation_from_ajuste_credito(full_text) ==
  With(ReSearch(ReAjusteCreditoStart, full_text),
       LAMBDA m :
         IF ~ m.ok THEN NoOperation
         ELSE With(ReSearch(ReNextCondiciones, From(full_text, m.end)),
                   LAMBDA m_end :
                     OperationFromLines(CollapseAll(StrippedLines(
                       SubSeq(full_text, m.start,
                              IF m_end.ok THEN m.end + m_end.start - 2 ELSE Len(full_text)))))))

\* ------------------------------------------------------------ retenciones

RECURSIVE Pow10(_)
Pow10(n) == IF n = 0 THEN 1 ELSE 10 * Pow10(n - 1)

\* abs(a) < abs(b) for two floats
AbsLess(a, b) == Abs(a.m) * Pow10(b.e) < Abs(b.m) * Pow10(a.e)

\* abs(v) > 0.0001
Significant(v) == Abs(v.m) * 10000 > Pow10(v.e)

\* [v for v in vals if abs(v) > 0.0001]
SignificantOnly(vals) == SelectSeq(vals, Significant)

\* max(vals, key=abs) and min(vals, key=abs): the first of the extreme ones
MaxByAbs(vals) ==
  vals[CHOOSE i \in 1..Len(vals) :
         /\ \A j \in 1..Len(vals) : ~ AbsLess(vals[i], vals[j])
         /\ \A j \in 1..(i - 1) : AbsLess(vals[j], vals[i])]

MinByAbs(vals) ==
  vals[CHOOSE i \in 1..Len(vals) :
         /\ \A j \in 1..Len(vals) : ~ AbsLess(vals[j], vals[i])
         /\ \A j \in 1..(i - 1) : AbsLess(vals[i], vals[j])]

StopKws == {"IMPORTES", "TOTAL", "FIRMA", "OTROS", "GRAV", "LIQUID", "DEDUCC", "IMPUESTO"}

\* re.search(r"[A-ZÁÉÍÓÚÑ]", u)
HasUpperLetter(u) == \E i \in 1..Len(u) : \E k \in 1..Len(UpperAlpha) : Char(u, i) = Char(UpperAlpha, k)

\* _looks_like_continuation(line)
_looks_like_continuation(line) ==
  With(Strip(Upper(line)),
       LAMBDA u :
         IF u = "" THEN FALSE
         ELSE IF \E k \in StopKws : Contains(u, k) THEN FALSE
         ELSE IF Contains(u, "REGIMEN") THEN TRUE
         ELSE IF HasUpperLetter(u) THEN FALSE
         ELSE HasDigit(u))

\* the characters of full_text[s:s + 1200] the retention table is read from
RetencionesWindow == 1200

\* Total\s+Retenciones\s+Afip\s*:\s*\$?\s*([-]?\d[\d.,]*)
ReTotalAfip ==
  ReLitI("Total") \o ReWs1 \o ReLitI("Retenciones") \o ReWs1 \o ReLitI("Afip") \o ReWs0
    \o ReLit(":") \o ReOptDollar \o ReOpen(1) \o ReSignedAmount \o ReClose(1)

\* \bI\.?\s*V\.?\s*A\.?\b
ReIvaWord ==
  ReWb \o ReLitI("I") \o ReSet({"."}, 0, 1) \o ReWs0 \o ReLitI("V") \o ReSet({"."}, 0, 1) \o ReWs0
    \o ReLitI("A") \o ReSet({"."}, 0, 1) \o ReWb

\* \$\s*([-]?\d[\d.,]*)
ReDollarAmount == ReLit("$") \o ReWs0 \o ReOpen(1) \o ReSignedAmount \o ReClose(1)

\* re.findall(re, s) for a pattern with one group
MatchedGroups(re, s) ==
  With(ReFindAll(re, s, 1), LAMBDA ms : [i \in 1..Len(ms) |-> ReGroup(s, ms[i], 1)])

\* the lines appended to block_lines after the IVA line
RECURSIVE ContinuationLines(_, _, _)
ContinuationLines(lines, j, last) ==
  IF j > last THEN <<>>
  ELSE IF _looks_like_continuation(Strip(lines[j]))
  THEN <<Strip(lines[j])>> \o ContinuationLines(lines, j + 1, last)
  ELSE <<>>

\* the labeled total never read
TotalAfipAbsent(sec) == Zero

\* parser.py lines 512-514: the amount after Total Retenciones Afip, else 0.0
TotalAfip(sec) ==
  With(ReSearch(ReTotalAfip, sec),
       LAMBDA m_total : IF m_total.ok THEN NumberOrZero(ReGroup(sec, m_total, 1)) ELSE Zero)

\* parser.py lines 536-547: the amount read from the block of the IVA line
RetencionFromBlock(block, total_afip) ==
  With(SignificantOnly(ParsedNumbers(MatchedGroups(ReDollarAmount, block))),
       LAMBDA dols :
         IF dols # <<>> THEN MaxByAbs(dols)
         ELSE With(SignificantOnly(ParsedNumbers(MatchedTexts(ReSignedAmount, block))),
                   LAMBDA nums : IF nums # <<>> THEN MinByAbs(nums) ELSE total_afip))

\* the IVA line of the section taken without the IVA RG test
RetencionFromLinesAnyIva(lines, total_afip) ==
  With(FirstLine(lines, 1, Len(lines),
                 LAMBDA ln : HasChar(ln, "%") /\ ReSearch(ReIvaWord, ln).ok),
       LAMBDA iva_idx :
         IF iva_idx = 0 THEN total_afip
         ELSE RetencionFromBlock(
                Join(<<Strip(lines[iva_idx])>>
                       \o ContinuationLines(lines, iva_idx + 1, Min(Len(lines), iva_idx + 2)),
                     " "),
                total_afip))

\* parser.py lines 516-534: the IVA line of the section and its continuations
RetencionFromLines(lines, total_afip) ==
  With(FirstLine(lines, 1, Len(lines),
                 LAMBDA ln : /\ HasChar(ln, "%")
                             /\ ReSearch(ReIvaWord, ln).ok
                             /\ ~ Contains(Upper(ln), "IVA RG")),
       LAMBDA iva_idx :
         IF iva_idx = 0 THEN total_afip
         ELSE RetencionFromBlock(
                Join(<<Strip(lines[iva_idx])>>
                       \o ContinuationLines(lines, iva_idx + 1, Min(Len(lines), iva_idx + 2)),
                     " "),
                total_afip))

\* _extract_retencion_iva_from_retenciones_table(full_text)
_extract_retencion_iva_from_retenciones_table(full_text) ==
  With(Find(Upper(full_text), "RETENCIONES"),
       LAMBDA s :
         IF s = 0 THEN Zero
         ELSE With(SubSeq(full_text, s, Min(Len(full_text), s + RetencionesWindow - 1)),
                   LAMBDA sec : RetencionFromLines(SplitLines(sec), TotalAfip(sec))))

\* _extract_retenciones with the income-tax withholding read as the VAT one is
RetencionesWithGanancias(full_text) ==
  [ret_iva |-> _extract_retencion_iva_from_retenciones_table(full_text),
   ret_gan |-> _extract_retencion_iva_from_retenciones_table(full_text)]

\* _extract_retenciones(full_text): (ret_iva, ret_gan)
_extract_retenciones(full_text) ==
  [ret_iva |-> _extract_retencion_iva_from_retenciones_table(full_text), ret_gan |-> Zero]

\* ------------------------------------------------------------ deducciones

DeductionLine(concepto, neto, alic, iva, total) ==
  [concepto |-> concepto, neto |-> neto, alic |-> alic, iva |-> iva, total |-> total]

\* \s+\$?\s*([-]?\d[\d.,]*) with the group numbered g
ReAmountColumn(g) ==
  ReWs1 \o ReSet({"$"}, 0, 1) \o ReWs0 \o ReOpen(g) \o ReSignedAmount \o ReClose(g)

\* pat_full
RePatFull ==
  ReBol \o ReOpen(1) \o ReLazyAny \o ReClose(1) \o ReAmountColumn(2)
    \o ReWs1 \o ReOpen(3) \o ReSignedAmount \o ReClose(3) \o ReSet({"%"}, 0, 1)
    \o ReAmountColumn(4) \o ReAmountColumn(5) \o ReWs0 \o ReEol

\* pat_zero
RePatZero ==
  ReBol \o ReOpen(1) \o ReLazyAny \o ReClose(1) \o ReAmountColumn(2)
    \o ReWs1 \o ReLit("0") \o ReSet({"%"}, 0, 1)
    \o ReAmountColumn(3) \o ReAmountColumn(4) \o ReWs0 \o ReEol

\* ^\d{3,7}\|
ReDetailCode == ReBol \o ReSet(Digits, 3, 7) \o ReLit("|")

\* looks_like_header(ln)
LooksLikeHeader(ln) ==
  With(_norm(ln),
       LAMBDA n :
         \/ SubSeq(n, 1, Min(Len(n), 11)) = "DEDUCCIONES"
         \/ Contains(n, "CONCEPTO") /\ Contains(n, "ALICUOTA")
         \/ Contains(n, "BASE") /\ Contains(n, "CALC")
         \/ Contains(n, "NETO") /\ Contains(n, "IVA") /\ Contains(n, "TOTAL"))

\* the longest candidate that is kept in the buffer, plus one
BufferLimit == 220

\* the line read by pat_full with the net amount taken for the total too
DeductionFullNetTotal(candidate, m, named) ==
  With([g \in 2..5 |-> NumberOrZero(ReGroup(candidate, m, g))],
       LAMBDA n : DeductionLine(named, n[2], n[3], n[4], n[2]))

\* parser.py lines 614-626: the line read by pat_full
DeductionFull(candidate, m, named) ==
  With([g \in 2..5 |-> NumberOrZero(ReGroup(candidate, m, g))],
       LAMBDA n : DeductionLine(named, n[2], n[3], n[4], n[5]))

\* parser.py lines 628-639: the line read by pat_zero
DeductionZero(candidate, m0, named) ==
  With(NumberOrZero(ReGroup(candidate, m0, 2)),
       LAMBDA total_base :
         With(parse_number(Str(ReGroup(candidate, m0, 4))).val,
              LAMBDA total :
                DeductionLine(named,
                              total_base,
                              Zero,
                              NumberOrZero(ReGroup(candidate, m0, 3)),
                              IF total.ok /\ total.m # 0 THEN total ELSE total_base)))

\* the deduction line read from candidate with the pending detail left out
DeductionFromUnnamed(candidate, m, m0, pending_detail) ==
  With(Strip(ReGroup(candidate, IF m.ok THEN m ELSE m0, 1)),
       LAMBDA concepto :
         IF m.ok THEN DeductionFull(candidate, m, concepto)
         ELSE DeductionZero(candidate, m0, concepto))

\* the deduction line read from candidate by pat_full (m) or pat_zero (m0)
DeductionFrom(candidate, m, m0, pending_detail) ==
  With(Strip(ReGroup(candidate, IF m.ok THEN m ELSE m0, 1)),
       LAMBDA concepto :
         With(IF pending_detail # "" THEN Strip(pending_detail \o " " \o concepto) ELSE concepto,
              LAMBDA named :
                IF m.ok THEN DeductionFull(candidate, m, named)
                ELSE DeductionZero(candidate, m0, named)))

\* parser.py lines 597-599: a detail code line (it names the next deduction)
IsDetailCode(ln2) ==
  /\ ReSearch(ReDetailCode, ln2).ok
  /\ ~ HasChar(ln2, "$")
  /\ ~ ReSearch(RePatFull, ln2).ok
  /\ ~ ReSearch(RePatZero, ln2).ok

\* the for loop of _extract_deducciones over raw_lines, from the i-th on
RECURSIVE DeduccionesLoop(_, _, _, _, _)
DeduccionesLoop(raw_lines, i, out, pending_detail, buffer) ==
  IF i > Len(raw_lines) THEN out
  ELSE IF LooksLikeHeader(raw_lines[i])
  THEN DeduccionesLoop(raw_lines, i + 1, out, pending_detail, buffer)
  ELSE
    With(Collapse(raw_lines[i]),
         LAMBDA ln2 :
           IF IsDetailCode(ln2) THEN DeduccionesLoop(raw_lines, i + 1, out, ln2, buffer)
           ELSE
             With(IF buffer # "" THEN Strip(buffer \o " " \o ln2) ELSE ln2,
                  LAMBDA candidate :
                    With(ReSearch(RePatFull, candidate),
                         LAMBDA m :
                           With(IF m.ok THEN ReFail ELSE ReSearch(RePatZero, candidate),
                                LAMBDA m0 :
                                  IF ~ m.ok /\ ~ m0.ok
                                  THEN DeduccionesLoop(raw_lines, i + 1, out, pending_detail,
                                         IF Len(candidate) < BufferLimit THEN candidate ELSE "")
                                  ELSE DeduccionesLoop(raw_lines, i + 1,
                                         Append(out, DeductionFrom(candidate, m, m0, pending_detail)),
                                         "", "")))))

\* _extract_deducciones(page_text)
_extract_deducciones(page_text) ==
  With(Upper(page_text),
       LAMBDA up :
         With(Find(up, "DEDUCCIONES"),
              LAMBDA s :
                With(Find(up, "RETENCIONES"),
                     LAMBDA e :
                       IF s = 0 \/ e = 0 \/ e <= s THEN <<>>
                       ELSE DeduccionesLoop(StrippedLines(SubSeq(page_text, s, e - 1)),
                                            1, <<>>, "", ""))))

\* ------------------------------------------------------------ arancel

\* the first positions, from s on, of the texts that end the section
ArancelEnds(up, s) ==
  {FindFrom(up, "IMPORTES TOTALES", s),
   FindFrom(up, "IMPORTE NETO A PAGAR", s),
   FindFrom(up, "CONDICIONES DE LA OPERACION", s),
   FindFrom(up, "CONDICIONES DE LA OPERACIÓN", s)} \ {0}

\* the last amount of vals that is not zero; None when there is none
RECURSIVE LastNonZero(_)
LastNonZero(vals) ==
  IF vals = <<>> THEN None
  ELSE IF vals[Len(vals)].m # 0 THEN vals[Len(vals)]
  ELSE LastNonZero(SubSeq(vals, 1, Len(vals) - 1))

\* amounts_after_dollar(line)
AmountsAfterDollar(line) == ParsedNumbers(MatchedGroups(ReDollarAmount, line))

\* parser.py lines 673-675: the line names the Arancel
NamesArancel(ln) ==
  Contains(ln, "58487")
    \/ With(_norm(ln), LAMBDA n : Contains(n, "ARANCEL") /\ Contains(n, "RESOLUCION"))

\* the for loop of _extract_arancel_4905 over lines, from the i-th on
RECURSIVE ArancelLoop(_, _, _)
ArancelLoop(lines, i, pending) ==
  IF i > Len(lines) THEN Zero
  ELSE
    With(NamesArancel(lines[i]) \/ pending,
         LAMBDA named :
           With(LastNonZero(AmountsAfterDollar(lines[i])),
                LAMBDA v : IF named /\ v.ok THEN v ELSE ArancelLoop(lines, i + 1, named)))

\* the position the section ends before
ArancelEnd(up, s, n) ==
  With(ArancelEnds(up, s),
       LAMBDA ends : IF ends = {} THEN n + 1 ELSE CHOOSE x \in ends : \A y \in ends : x <= y)

\* _extract_arancel_4905(page_text)
_extract_arancel_4905(page_text) ==
  With(Upper(page_text),
       LAMBDA up :
         With(Find(up, "RETENCIONES"),
              LAMBDA s :
                IF s = 0 THEN Zero
                ELSE ArancelLoop(
                       CollapseAll(StrippedLines(
                         SubSeq(page_text, s, ArancelEnd(up, s, Len(page_text)) - 1))),
                       1, FALSE)))

ArancelConcepto == "58487|Arancel Resolución 49/05"

\* ------------------------------------------------------------ mercaderia entregada

\* [A-Z0-9] under re.IGNORECASE
AlnumChars ==
  Digits \cup {Char(UpperAlpha, i) : i \in 1..26} \cup {Char(LowerAlpha, i) : i \in 1..26}

\* \b(\d{10,14})\b
ReReceipt == ReWb \o ReOpen(1) \o ReSet(Digits, 10, 14) \o ReClose(1) \o ReWb

\* \b(\d{10,14})\b\s+([A-Z0-9]{1,4})\s+([0-9][0-9.,]*)\s+([0-9][0-9.,]*)\s+([0-9][0-9.,]*)
ReMeRow ==
  ReReceipt \o ReWs1 \o ReOpen(2) \o ReSet(AlnumChars, 1, 4) \o ReClose(2)
    \o ReWs1 \o ReOpen(3) \o ReAmount \o ReClose(3)
    \o ReWs1 \o ReOpen(4) \o ReAmount \o ReClose(4)
    \o ReWs1 \o ReOpen(5) \o ReAmount \o ReClose(5)

\* what _extract_me returns
MeFields(nro, grado, factor, prot, peso, proced) ==
  [nro |-> nro, grado |-> grado, factor |-> factor, prot |-> prot, peso |-> peso,
   proced |-> proced]

\* parser.py lines 479-482: the Localidad of the section
MeProcedencia(sec) ==
  With(ReSearch(ReLocalidad, sec),
       LAMBDA mloc : IF mloc.ok THEN Collapse(Strip(ReGroup(sec, mloc, 1))) ELSE "")

\* parser.py lines 468-477: the weight of the first line that holds nro, its
\* last number
MePesoOfLine(sec, nro) ==
  With(SplitLines(sec),
       LAMBDA lines :
         With({i \in 1..Len(lines) : Contains(lines[i], nro)},
              LAMBDA hits :
                IF hits = {} THEN None
                ELSE With(lines[Least(hits)],
                          LAMBDA line :
                            With(ReFindAll(ReSignedAmount, line, 1),
                                 LAMBDA toks2 :
                                   IF toks2 = <<>> THEN None
                                   ELSE parse_number(Str(ReWhole(line, toks2[Len(toks2)]))).val))))

\* parser.py lines 451-484: the receipt read from the section
MeOfSection(sec) ==
  With(ReSearch(ReMeRow, sec),
       LAMBDA mrow :
         IF mrow.ok
         THEN MeFields(Strip(ReGroup(sec, mrow, 1)), Strip(ReGroup(sec, mrow, 2)),
                       parse_number(Str(ReGroup(sec, mrow, 3))).val,
                       parse_number(Str(ReGroup(sec, mrow, 4))).val,
                       parse_number(Str(ReGroup(sec, mrow, 5))).val,
                       MeProcedencia(sec))
         ELSE With(ReSearch(ReReceipt, sec),
                   LAMBDA m2 :
                     IF m2.ok
                     THEN MeFields(Strip(ReGroup(sec, m2, 1)), "", None, None,
                                   MePesoOfLine(sec, Strip(ReGroup(sec, m2, 1))),
                                   MeProcedencia(sec))
                     ELSE MeFields("", "", None, None, None, MeProcedencia(sec))))

\* _extract_me(page_text)
_extract_me(page_text) ==
  With(Upper(page_text),
       LAMBDA up :
         With(IF Find(up, "MERCADERIA ENTREGADA") # 0 THEN Find(up, "MERCADERIA ENTREGADA")
              ELSE Find(up, "MERCADERÍA ENTREGADA"),
              LAMBDA start :
                IF start = 0 THEN MeFields("", "", None, None, None, "")
                ELSE With(IF FindFrom(up, "OPERACIÓN", start) # 0
                          THEN FindFrom(up, "OPERACIÓN", start)
                          ELSE FindFrom(up, "OPERACION", start),
                          LAMBDA end :
                            IF end = 0 \/ end <= start
                            THEN MeFields("", "", None, None, None, "")
                            ELSE MeOfSection(SubSeq(page_text, start, end - 1)))))

\* ------------------------------------------------------------ parse_liquidacion_pdf

\* "\n".join((p.extract_text() or "") for p in pdf.pages)
FullText(doc) == Join(doc.pages, "\n")

\* parser.py lines 711-716 without the try: what the layout extraction left,
\* whether it returned or raised
PartiesUnguarded(page0) ==
  With(_extract_parties_from_layout(page0),
       LAMBDA r : [acopio |-> r.val, comprador |-> r.val, vendedor |-> r.val])

\* parser.py lines 711-716
PartiesOf(page0) ==
  With(_extract_parties_from_layout(page0),
       LAMBDA r :
         IF r.raised
         THEN [acopio |-> EmptyParty, comprador |-> EmptyParty, vendedor |-> EmptyParty]
         ELSE r.val)

\* parser.py lines 719-727: the adjustment credit operation when the text
\* names one and it can be read, the standard operation otherwise
OperationOf(full_text, full_norm) ==
  With(IF /\ Contains(full_norm, "AJUSTE UNIFICADO")
          /\ ReSearch(ReLit("AJUSTE") \o ReWs1 \o ReLit("CREDITO"), full_norm).ok
       THEN _extract_operation_from_ajuste_credito(full_text)
       ELSE NoOperation,
       LAMBDA op_adj :
         IF op_adj.found THEN op_adj.op ELSE _extract_operation_numbers_standard(full_text))

\* parser.py lines 732-743: the deductions, the Arancel line appended
DeduccionesOf(full_text) ==
  With(_extract_arancel_4905(full_text),
       LAMBDA ar_4905 :
         _extract_deducciones(full_text)
           \o (IF ar_4905.m # 0
               THEN <<DeductionLine(ArancelConcepto, ar_4905, Zero, Zero, ar_4905)>>
               ELSE <<>>))

\* the fields read from the document, before the sign normalization
Fields(es_nc, tipo_cbte, coe, parties, op, me, retenciones, deducciones) ==
  [es_nc |-> es_nc,
   tipo_cbte |-> tipo_cbte,
   letra |-> "A",
   coe |-> coe.coe, pv |-> coe.pv, numero |-> coe.numero,
   acopio |-> parties.acopio, comprador |-> parties.comprador, vendedor |-> parties.vendedor,
   kilos |-> op.kilos, precio |-> op.precio, neto |-> op.neto,
   alic_iva |-> op.alic, iva |-> op.iva, total |-> op.total,
   me_nro_comprobante |-> me.nro, me_grado |-> me.grado, me_factor |-> me.factor,
   me_contenido_proteico |-> me.prot, me_peso_kg |-> me.peso, me_procedencia |-> me.proced,
   ret_iva |-> retenciones.ret_iva, ret_gan |-> retenciones.ret_gan,
   deducciones |-> deducciones]

\* parser.py lines 693-743 for the text and the first page of the document
ExtractedFrom(full_text, full_norm, page0) ==
  With(_is_nc(full_norm),
       LAMBDA es_nc :
         Fields(es_nc,
                IF es_nc THEN "F2" ELSE _detect_tipo_cbte(full_norm),
                CoeFields(full_text),
                PartiesOf(page0),
                OperationOf(full_text, full_norm),
                _extract_me(full_text),
                _extract_retenciones(full_text),
                DeduccionesOf(full_text)))

\* the Liquidacion assembled from what the extractors return, before the
\* sign normalization (parser.py lines 693-743)
Extracted(doc) ==
  With(FullText(doc), LAMBDA full_text : ExtractedFrom(full_text, _norm(full_text), doc.page0))

\* parser.py lines 751-760: the deduction lines with their amounts forced
\* negative
FixedDeducciones(deducciones) ==
  [i \in 1..Len(deducciones) |->
     DeductionLine(deducciones[i].concepto,
                   _neg_abs(deducciones[i].neto).val,
                   deducciones[i].alic,
                   _neg_abs(deducciones[i].iva).val,
                   _neg_abs(deducciones[i].total).val)]

\* the Liquidacion returned: the fields of x with the amounts given
Liquidacion(x, neto, iva, total, ret_iva, ret_gan, deducciones) ==
  [tipo_cbte |-> x.tipo_cbte, letra |-> x.letra,
   coe |-> x.coe, pv |-> x.pv, numero |-> x.numero,
   acopio |-> x.acopio, comprador |-> x.comprador, vendedor |-> x.vendedor,
   kilos |-> x.kilos, precio |-> x.precio, neto |-> neto,
   alic_iva |-> x.alic_iva, iva |-> iva, total |-> total,
   me_nro_comprobante |-> x.me_nro_comprobante, me_grado |-> x.me_grado,
   me_factor |-> x.me_factor, me_contenido_proteico |-> x.me_contenido_proteico,
   me_peso_kg |-> x.me_peso_kg, me_procedencia |-> x.me_procedencia,
   ret_iva |-> ret_iva, ret_gan |-> ret_gan,
   deducciones |-> deducciones]

\* parse_liquidacion_pdf(pdf_bytes, filename): the fields of the Liquidacion
\* that hold the voucher type, the C.O.E., the parties, the amounts and the
\* goods delivered
parse_liquidacion_pdf(doc) ==
  With(Extracted(doc),
       LAMBDA x :
         IF x.es_nc
         THEN Liquidacion(x, _neg_abs(x.neto).val, _neg_abs(x.iva).val, _neg_abs(x.total).val,
                          _neg_abs(x.ret_iva).val, _neg_abs(x.ret_gan).val,
                          FixedDeducciones(x.deducciones))
         ELSE Liquidacion(x, x.neto, x.iva, x.total, x.ret_iva, x.ret_gan, x.deducciones))

\* ------------------------------------------------------------ exporters

\* a row of the sales sheet: its Cpbte, Cód. P/R, Perc./Ret. and Total
VentasRow(cpbte, cod_pr, perc_ret, total) ==
  [cpbte |-> cpbte, cod_pr |-> cod_pr, perc_ret |-> perc_ret, total |-> total]

\* add_ret(code, amount): no row for an amount of zero
AddRet(code, amount) ==
  IF amount.m = 0 THEN <<>> ELSE <<VentasRow("RV", code, amount, amount)>>

\* build_ventas_rows(liqs): for each record its main row, then its
\* withholding rows
build_ventas_rows(liqs) ==
  Flatten([i \in 1..Len(liqs) |->
             <<VentasRow(liqs[i].tipo_cbte, "", None, liqs[i].total)>>
               \o AddRet("RA07", liqs[i].ret_iva)
               \o AddRet("RA05", liqs[i].ret_gan)],
          1, Len(liqs))

\* exporters.py lines 342-351: the goods-delivered items of a record, which
\* has no me_items: one item when it holds a receipt number
MeItems(l) ==
  IF l.me_nro_comprobante # ""
  THEN <<MeFields(l.me_nro_comprobante, l.me_grado, l.me_factor, l.me_contenido_proteico,
                  l.me_peso_kg, l.me_procedencia)>>
  ELSE <<>>

\* a row of the receipts sheet: its C.O.E. and its goods-delivered columns
CpnsRow(coe, it) ==
  [coe |-> coe, nro |-> it.nro, grado |-> it.grado, factor |-> it.factor, prot |-> it.prot,
   proced |-> it.proced, peso |-> it.peso]

\* build_excel_cpns(liqs): for each record a row per goods-delivered item, one
\* row with the columns empty when it has none
build_excel_cpns(liqs) ==
  Flatten([i \in 1..Len(liqs) |->
             With(IF MeItems(liqs[i]) = <<>>
                  THEN <<MeFields("", "", None, None, None, "")>>
                  ELSE MeItems(liqs[i]),
                  LAMBDA me_items :
                    [j \in 1..Len(me_items) |-> CpnsRow(liqs[i].coe, me_items[j])])],
          1, Len(liqs))

\* ------------------------------------------------------------ inputs

RECURSIVE Strings(_, _)
Strings(alphabet, n) ==
  IF n = 0 THEN {""}
  ELSE LET shorter == Strings(alphabet, n - 1)
       IN shorter \cup {s \o c : s \in shorter, c \in alphabet}

NumAlphabet == {"0", "1", ",", ".", "-", "$", " "}

NumExamples == {"1.234.567,89", "129,250.00", "27,14", "1,234,567", "2585000.00"}

NumInputs == {NoStr} \cup {Str(s) : s \in Strings(NumAlphabet, MaxNumLen) \cup NumExamples}

\* the texts made of at most n of the given pieces, one after the other
RECURSIVE Concats(_, _)
Concats(pieces, n) ==
  IF n = 0 THEN {""}
  ELSE LET shorter == Concats(pieces, n - 1)
       IN shorter \cup {s \o c : s \in shorter, c \in pieces}

MaxCuitPieces == 5

CuitPieces == {"30", "12345678", "9", "-", "A"}

CuitExamples == {"30-12345678-9", "no id here", "CUIT: 30 12345678 9 RI"}

CuitInputs == {NoStr} \cup {Str(s) : s \in Concats(CuitPieces, MaxCuitPieces) \cup CuitExamples}

Amounts == {Float(m, e) : m \in (-MaxAmount)..MaxAmount, e \in 0..MaxScale}

OptAmounts == Amounts \cup {None}

\* app.py lines 188-191, and a list naming a key the registro lacks
CamposMonetarios == {<<"Neto", "IVA", "Total">>, <<"Neto", "Otros">>, <<>>}

Registros ==
  [{"Neto", "IVA", "EsNC"} -> OptAmounts] \cup [{"Neto", "Total"} -> OptAmounts]

SignInputs ==
  [f : {"_neg_abs"}, v : OptAmounts]
    \cup [f : {"negativizar_importes"}, registro : Registros, campos : CamposMonetarios]

\* a word of page.extract_words(): its text, left x and top y
Word(text, x0, top) == [text |-> text, x0 |-> x0, top |-> top]

\* the words of a few lines of a page: the i-th word is the i-th letter, at
\* one of two x and at a top that is on, near or off the top of another
LineWordTexts == "ABCD"

LineWordX0s == {10, 100}

LineWordTops == {20, 22, 24, 30}

MaxLineWords == 3

LineWordLists ==
  UNION {[1..n -> {Word("", x0, top) : x0 \in LineWordX0s, top \in LineWordTops}] :
           n \in 0..MaxLineWords}

\* the words with their letters
Lettered(ws) == [i \in 1..Len(ws) |-> Word(Char(LineWordTexts, i), ws[i].x0, ws[i].top)]

LineWords == {Lettered(ws) : ws \in LineWordLists}

\* the two header tokens: in the usual order, reversed, in lower case, the
\* second one missing, both missing
HeaderWords ==
  {<<Word("COMPRADOR", 0, 10), Word("VENDEDOR", 300, 10)>>,
   <<Word("VENDEDOR", 0, 10), Word("COMPRADOR", 300, 10)>>,
   <<Word("Comprador", 20, 10), Word("Vendedor", 280, 10)>>,
   <<Word("COMPRADOR", 0, 10)>>,
   <<>>}

\* one party in each column, a title above and a section below
BodyWords ==
  <<Word("LIQUIDACION", 10, 0),
    Word("Razón", 10, 20), Word("Social:", 50, 20), Word("ACME", 100, 20),
    Word("Razón", 310, 20), Word("Social:", 350, 20), Word("BETA", 400, 20),
    Word("C.U.I.T.:", 10, 40), Word("30-12345678-9", 60, 40),
    Word("C.U.I.T.:", 310, 40), Word("20-87654321-0", 360, 40),
    Word("GRANO", 10, 70)>>

FooterWords == {<<>>, <<Word("ACTUÓ", 10, 60), Word("Corredor", 310, 60)>>}

ExtraWords == {Word("Ruta", x, top) : x \in {10, 150, 310}, top \in {5, 22, 65}}

RECURSIVE WordLists(_, _)
WordLists(words, n) ==
  IF n = 0 THEN {<<>>}
  ELSE LET shorter == WordLists(words, n - 1)
       IN shorter \cup {Append(l, w) : l \in shorter, w \in words}

PageWidth == 600

Pages ==
  {[words |-> h \o BodyWords \o f \o x, width |-> PageWidth] :
     h \in HeaderWords, f \in FooterWords, x \in WordLists(ExtraWords, MaxExtraWords)}

\* the pages of a settlement: its title, its C.O.E., the AJUSTE UNIFICADO
\* line, the heading of the conditions, the line of the operation, and the
\* deductions and retentions
TitleLines == {"LIQUIDACION PRIMARIA DE GRANOS", "Liquidación Secundaria de Granos"}

CoeLine == "C.O.E.: 330112345678"

UnificadoLines == {<<>>, <<"AJUSTE UNIFICADO">>}

HeadingLines ==
  {<<>>,
   <<"CONDICIONES DE LA OPERACIÓN - AJUSTE CRÉDITO">>,
   <<"Condiciones de la Operacion-Ajuste Credito">>,
   <<"CONDICIONES DE LA OPERACIÓN: AJUSTE CRÉDITO">>}

OperationLines ==
  {<<>>,
   <<"1000 Kg $ 2,50 $ 2.500,00 10,5 $ 262,50 $ 2.762,50">>,
   <<"1000 Kg $ 2,50 $ -2.500,00 10,5 $ -262,50 $ -2.762,50">>,
   <<"1000 Kg 2,50 2.500,00 262,50 2.762,50">>}

MaxDeductions == 2

DeductionLines ==
  <<"Comision $ 100,00 21% $ 21,00 $ 121,00",
    "Flete $ -50,00 0% $ 0,00 $ -50,00",
    "Sellado $ 10,00 10,5% $ 1,05 $ 11,05",
    "Acarreo 20,00 0 0,00 20,00">>

RetentionLines ==
  {<<"IVA 8% $ 1.000,00 $ 80,00", "Arancel Resolucion 49/05 $ 12,00">>,
   <<"IVA 8% $ -1.000,00 $ -80,00", "Arancel Resolucion 49/05 $ -12,00">>}

SectionLines ==
  {<<>>} \cup
  {<<"DEDUCCIONES", "Concepto Base Alicuota IVA Total">>
     \o SubSeq(DeductionLines, 1, k)
     \o <<"RETENCIONES">> \o r \o <<"IMPORTES TOTALES">> :
   k \in 0..Min(MaxDeductions, Len(DeductionLines)), r \in RetentionLines}

\* the first page, as words, of every settlement of the model
FirstPage ==
  [words |-> <<Word("COMPRADOR", 0, 10), Word("VENDEDOR", 300, 10)>> \o BodyWords,
   width |-> PageWidth]

\* what pdfplumber reads from the file: the text of its one page and the
\* words of that page
Docs ==
  {[pages |-> <<Join(<<t, CoeLine>> \o u \o h \o o \o s, "\n")>>, page0 |-> FirstPage] :
     t \in TitleLines, u \in UnificadoLines, h \in HeadingLines,
     o \in OperationLines, s \in SectionLines}

\* the six tokens of an operation line: the example of the specification,
\* and one written with decimal commas
OperationTokens ==
  {<<"10000", "258.50", "2585000.00", "10.5", "271425.00", "2856425.00">>,
   <<"1000", "2,50", "2.500,00", "10,5", "262,50", "2.762,50">>}

\* how an amount is introduced: bare, or by a currency symbol
CurrencySymbols == {"", "$", "$ "}

\* <kilos> Kg <price> <net> <rate> <vat> <total>
OperationLineOf(t, sym) ==
  t[1] \o " Kg " \o sym \o t[2] \o " " \o sym \o t[3] \o " " \o t[4]
    \o " " \o sym \o t[5] \o " " \o sym \o t[6]

\* settlements that hold an operation line, under a title or as the first
\* line of the text
OperationDocs ==
  {[pages |-> <<Join(pre \o <<OperationLineOf(t, sym)>>, "\n")>>, page0 |-> FirstPage] :
     pre \in {<<>>, <<"LIQUIDACION PRIMARIA DE GRANOS">>},
     t \in OperationTokens, sym \in {"", "$"}}

\* credit notes whose data row holds fewer than five numbers
ShortRowDocs ==
  {[pages |-> <<Join(<<"LIQUIDACION PRIMARIA DE GRANOS", "AJUSTE UNIFICADO",
                       "CONDICIONES DE LA OPERACIÓN - AJUSTE CRÉDITO", row,
                       "IMPORTES TOTALES">>, "\n")>>,
    page0 |-> FirstPage] :
     row \in {"1000 Kg 2 5", "1000 Kg 2,50 2.500,00"}}

\* a settlement and a credit note whose RETENCIONES section has a line for
\* the income tax
GananciasDocs ==
  {[pages |-> <<Join(<<"LIQUIDACION PRIMARIA DE GRANOS", CoeLine>> \o u
                       \o <<"CONDICIONES DE LA OPERACIÓN - AJUSTE CRÉDITO",
                            "1000 Kg $ 2,50 $ 2.500,00 10,5 $ 262,50 $ 2.762,50",
                            "RETENCIONES",
                            "IVA 8% $ 80,00",
                            "Ganancias 2% $ 1.000,00 $ 20,00",
                            "Total Retenciones Afip: $ 100,00",
                            "IMPORTES TOTALES">>, "\n")>>,
    page0 |-> FirstPage] :
     u \in UnificadoLines}

\* a first page whose width cannot be read
DegeneratePage == [words |-> FirstPage.words, width |-> NoWidth]

\* a settlement and a credit note, each with every section, on a degenerate
\* first page
DegenerateDocs ==
  {[pages |-> <<Join(<<"LIQUIDACION PRIMARIA DE GRANOS", CoeLine>> \o u
                       \o <<"CONDICIONES DE LA OPERACIÓN - AJUSTE CRÉDITO">> \o o \o s, "\n")>>,
    page0 |-> DegeneratePage] :
     u \in UnificadoLines,
     o \in {<<"1000 Kg $ 2,50 $ 2.500,00 10,5 $ 262,50 $ 2.762,50">>},
     s \in {<<"DEDUCCIONES", "Concepto Base Alicuota IVA Total", DeductionLines[1],
              "RETENCIONES">> \o r \o <<"IMPORTES TOTALES">> : r \in RetentionLines}}

\* the I.V.A. line of a RETENCIONES section: its label, its percentage, and
\* the base and the retained amount
RetencionLabels == {"I.V.A.", "IVA"}

RetencionRates == {"5", "8", "10,5"}

\* (retained amount, base amount)
RetencionAmounts ==
  {<<"479.16", "9583.20">>, <<"80,00", "1.000,00">>, <<"2,00", "20,00">>}

\* the retained amount a after a currency symbol and the base b bare, in
\* either order; both after a currency symbol; both bare, in either order
RetencionForms == {"$a (b)", "b $a", "$b $a", "a b", "b a"}

RetencionBody(form, a, b) ==
  CASE form = "$a (b)" -> "$ " \o a \o " (Regimen) " \o b
    [] form = "b $a" -> b \o " $ " \o a
    [] form = "$b $a" -> "$ " \o b \o " $ " \o a
    [] form = "a b" -> a \o " " \o b
    [] form = "b a" -> b \o " " \o a

RetencionSection(label, r, form, a, b) ==
  "RETENCIONES\n" \o label \o " " \o r \o "% " \o RetencionBody(form, a, b)

RetencionSections ==
  {RetencionSection(label, r, form, ab[1], ab[2]) :
     label \in RetencionLabels, r \in RetencionRates, form \in RetencionForms,
     ab \in RetencionAmounts}

\* the lines of a retention table: a line has a text, is or is not a valid
\* I.V.A. anchor (a percent sign, the I.V.A. token, no IVA RG), does or does
\* not read as a continuation line, and carries one amount after a currency
\* symbol or none
RetencionKind(text, anchor, cont, amount) ==
  [text |-> text, anchor |-> anchor, cont |-> cont, amount |-> amount]

RetencionKinds ==
  {RetencionKind("IVA 8% $ 80,00", TRUE, FALSE, "80,00"),
   RetencionKind("I.V.A. 5% $ 50,00", TRUE, FALSE, "50,00"),
   RetencionKind("IVA 0% $ 0,00", TRUE, FALSE, "0,00"),
   RetencionKind("IVA RG 2300 10% $ 999,00", FALSE, FALSE, "999,00"),
   RetencionKind("Regimen IVA RG 2300 10% $ 999,00", FALSE, TRUE, "999,00"),
   RetencionKind("I.V.A. $ 30,00", FALSE, FALSE, "30,00"),
   RetencionKind("$ 700,00", FALSE, TRUE, "700,00"),
   RetencionKind("Total Retenciones Afip: $ 123,45", FALSE, FALSE, "123,45"),
   RetencionKind("GRADO 2", FALSE, FALSE, "")}

MaxRetencionLines == 3

RetencionKindLists == UNION {[1..n -> RetencionKinds] : n \in 0..MaxRetencionLines}

\* the table under its RETENCIONES heading, or the lines without a heading
RetencionHeadings == {<<"RETENCIONES">>, <<>>}

RetencionTable(heading, kinds) ==
  Join(heading \o [i \in 1..Len(kinds) |-> kinds[i].text], "\n")

RetencionTables ==
  {RetencionTable(heading, kinds) : heading \in RetencionHeadings, kinds \in RetencionKindLists}

\* the labels and the digit runs of the C.O.E. line
CoeLabels == {"C.O.E.: ", "c.o.e. :", "Nro C.O.E.:"}

CoeDigits == {"1234567", "12345678", "3301123456", "330112345678", "33011234567890"}

CoeDoc(label, digits) ==
  [pages |-> <<Join(<<"LIQUIDACION PRIMARIA DE GRANOS", label \o digits \o " Fecha: 01/02/2024">>,
                    "\n")>>,
   page0 |-> FirstPage]

\* settlements with a C.O.E. of every length, and one without the line
CoeDocs ==
  {CoeDoc(label, digits) : label \in CoeLabels, digits \in CoeDigits}
    \cup {[pages |-> <<"LIQUIDACION PRIMARIA DE GRANOS">>, page0 |-> FirstPage]}

\* the goods delivered: rows <receipt> <grade> <factor> <protein> <weight>
MeRows ==
  {<<"123456789012", "G2", "1,000", "11,5", "30.000">>,
   <<"98765432101234", "F", "0,98", "10", "25000">>}

MeRowOf(t) == Join(t, " ")

MaxReceipts == 2

\* the lines that open and close the section
MeMarkers ==
  {<<"MERCADERIA ENTREGADA", "OPERACIÓN">>, <<"Mercadería Entregada", "Operacion">>}

MeLocalidades == {"", "San Justo"}

\* a settlement with the given rows in its goods-delivered section
MeDoc(marks, loc, rows) ==
  [pages |->
     <<Join(<<"LIQUIDACION PRIMARIA DE GRANOS", CoeLine, marks[1],
              "Nro Comprobante Grado Factor Contenido Proteico Peso">>
              \o (IF loc = "" THEN <<>> ELSE <<"Localidad: " \o loc>>)
              \o [i \in 1..Len(rows) |-> MeRowOf(rows[i])]
              \o <<marks[2], "1000 Kg $ 2,50 $ 2.500,00 10,5 $ 262,50 $ 2.762,50">>,
            "\n")>>,
   page0 |-> FirstPage]

MeRowLists == UNION {[1..k -> MeRows] : k \in 0..MaxReceipts}

MeDocs ==
  {MeDoc(marks, loc, rows) : marks \in MeMarkers, loc \in MeLocalidades, rows \in MeRowLists}

\* the adjustment credit section: its heading, a line of column titles or
\* none, the data row, and the heading of the next section or none
AjusteHeadings ==
  {"CONDICIONES DE LA OPERACIÓN - AJUSTE CRÉDITO", "Condiciones de la Operacion-Ajuste Credito"}

AjusteTitles == {<<>>, <<"Cantidad Precio Subtotal Alicuota IVA Total">>}

AjusteTails == {<<>>, <<"CONDICIONES DE LA OPERACIÓN", "500 Kg 9 9 9 9 9 9">>}

\* the numbers of a data row: four, five, six and seven of them
AjusteTokens ==
  {<<"500", "3", "1500", "150">>,
   <<"1000", "2,50", "2.500,00", "262,50", "2.762,50">>,
   <<"0", "0", "0", "0", "0">>,
   <<"1000", "2,50", "2.500,00", "21", "262,50", "2.762,50">>,
   <<"-1000", "2,50", "-2.500,00", "10,5", "-262,50", "-2.762,50", "7">>}

\* <kilos> Kg <number> ... <number>
AjusteRowOf(t, sym) ==
  t[1] \o " Kg" \o Concat([i \in 1..(Len(t) - 1) |-> " " \o sym \o t[i + 1]], 1, Len(t) - 1)

AjusteText(heading, titles, t, sym, tail) ==
  Join(<<"AJUSTE UNIFICADO", heading>> \o titles \o <<AjusteRowOf(t, sym)>> \o tail, "\n")

AjusteTexts ==
  {AjusteText(heading, titles, t, sym, tail) :
     heading \in AjusteHeadings, titles \in AjusteTitles, t \in AjusteTokens,
     sym \in {"", "$ "}, tail \in AjusteTails}

\* the deduction table: lines of the shape <concept> <amount> <rate>% <vat>
\* <total>, each with its concept and its four tokens
ShapedLines ==
  {[concepto |-> "Gastos Comerciales", sym |-> "$ ",
    tokens |-> <<"1000,00", "10,5", "105,00", "1105,00">>],
   [concepto |-> "Flete 2", sym |-> "",
    tokens |-> <<"50,00", "0", "0,00", "50,00">>],
   [concepto |-> "Comision", sym |-> "$",
    tokens |-> <<"-100,00", "21", "-21,00", "-121,00">>]}

ShapedLineOf(d) ==
  d.concepto \o " " \o d.sym \o d.tokens[1] \o " " \o d.tokens[2] \o "% "
    \o d.sym \o d.tokens[3] \o " " \o d.sym \o d.tokens[4]

\* a line of neither shape, and a detail code line
UnmatchedLine == "Observaciones varias"

DetailLine == "4905|Detalle"

OtherDetailLine == "12345|Anticipo"

DetailLines == {DetailLine, OtherDetailLine}

\* a blacklisted artifact alone on its line
ArtifactLine == "Administrativos"

UnmatchedLines == {UnmatchedLine, ArtifactLine}

HeaderLine == "Concepto Base Alicuota IVA Total"

MaxSectionLines == 3

SectionLineTexts ==
  {ShapedLineOf(d) : d \in ShapedLines} \cup UnmatchedLines \cup DetailLines \cup {HeaderLine}

\* the text from DEDUCCIONES to RETENCIONES around the given lines
DeduccionSection(lines) ==
  Join(<<"DEDUCCIONES">> \o lines \o <<"RETENCIONES">>, "\n")

DeduccionSections ==
  {DeduccionSection(lines) :
     lines \in UNION {[1..n -> SectionLineTexts] : n \in 1..MaxSectionLines}}

\* ------------------------------------------------------------ number parser

InitNumber ==
  /\ pc = "call"
  /\ fn \in {"parse_number", "parse_ar_number"}
  /\ arg \in NumInputs
  /\ ret = Return(None)
  /\ calls = 0

ParseNumber ==
  /\ pc = "call"
  /\ fn = "parse_number"
  /\ ret' = parse_number(arg)
  /\ pc' = "return"
  /\ calls' = calls + 1
  /\ UNCHANGED <<fn, arg>>

ParseArNumber ==
  /\ pc = "call"
  /\ fn = "parse_ar_number"
  /\ ret' = parse_ar_number(arg)
  /\ pc' = "return"
  /\ calls' = calls + 1
  /\ UNCHANGED <<fn, arg>>

NextNumber == ParseNumber \/ ParseArNumber

SpecNumber == InitNumber /\ [][NextNumber]_vars

\* ------------------------------------------------------------ tax-id normalizer

InitCuit ==
  /\ pc = "call"
  /\ fn = "parse_cuit_digits"
  /\ arg \in CuitInputs
  /\ ret = Return("")
  /\ calls = 0

ParseCuitDigits ==
  /\ pc = "call"
  /\ fn = "parse_cuit_digits"
  /\ ret' = parse_cuit_digits(arg)
  /\ pc' = "return"
  /\ calls' = calls + 1
  /\ UNCHANGED <<fn, arg>>

NextCuit == ParseCuitDigits

SpecCuit == InitCuit /\ [][NextCuit]_vars

\* ------------------------------------------------------------ sign normalizer

\* ret holds what the last call returned; for negativizar_importes, which
\* works in place, it holds the registro
InitSign ==
  /\ pc = "call"
  /\ arg \in SignInputs
  /\ fn = arg.f
  /\ ret = IF arg.f = "_neg_abs" THEN Return(arg.v) ELSE Return(arg.registro)
  /\ calls = 0

\* _neg_abs applied to the amount, or to what the previous call returned
NegAbs ==
  /\ fn = "_neg_abs"
  /\ calls < MaxCalls
  /\ ret' = _neg_abs(ret.val)
  /\ pc' = "return"
  /\ calls' = calls + 1
  /\ UNCHANGED <<fn, arg>>

\* negativizar_importes applied to the registro, once more at each call
Negativizar ==
  /\ fn = "negativizar_importes"
  /\ calls < MaxCalls
  /\ ret' = Return(negativizar_importes(ret.val, arg.campos))
  /\ pc' = "return"
  /\ calls' = calls + 1
  /\ UNCHANGED <<fn, arg>>

NextSign == NegAbs \/ Negativizar

SpecSign == InitSign /\ [][NextSign]_vars

\* ------------------------------------------------------------ column splitter

InitLayout ==
  /\ pc = "call"
  /\ fn = "_extract_parties_from_layout"
  /\ arg \in Pages
  /\ ret = Return([acopio |-> EmptyParty, comprador |-> EmptyParty, vendedor |-> EmptyParty])
  /\ calls = 0

ExtractPartiesFromLayout ==
  /\ pc = "call"
  /\ fn = "_extract_parties_from_layout"
  /\ ret' = _extract_parties_from_layout(arg)
  /\ pc' = "return"
  /\ calls' = calls + 1
  /\ UNCHANGED <<fn, arg>>

NextLayout == ExtractPartiesFromLayout

SpecLayout == InitLayout /\ [][NextLayout]_vars

\* ------------------------------------------------------------ line grouping

InitLines ==
  /\ pc = "call"
  /\ fn = "_group_words_to_lines"
  /\ arg \in LineWords
  /\ ret = Return(<<>>)
  /\ calls = 0

GroupWordsToLines ==
  /\ pc = "call"
  /\ fn = "_group_words_to_lines"
  /\ ret' = Return(_group_words_to_lines(arg))
  /\ pc' = "return"
  /\ calls' = calls + 1
  /\ UNCHANGED <<fn, arg>>

NextLines == GroupWordsToLines

SpecLines == InitLines /\ [][NextLines]_vars

\* ------------------------------------------------------------ retention resolver

InitRetencion ==
  /\ pc = "call"
  /\ fn = "_extract_retencion_iva_from_retenciones_table"
  /\ arg \in RetencionSections \cup RetencionTables
  /\ ret = Return(Zero)
  /\ calls = 0

ExtractRetencionIva ==
  /\ pc = "call"
  /\ fn = "_extract_retencion_iva_from_retenciones_table"
  /\ ret' = Return(_extract_retencion_iva_from_retenciones_table(arg))
  /\ pc' = "return"
  /\ calls' = calls + 1
  /\ UNCHANGED <<fn, arg>>

NextRetencion == ExtractRetencionIva

SpecRetencion == InitRetencion /\ [][NextRetencion]_vars

\* ------------------------------------------------------------ deduction parser

InitDeducciones ==
  /\ pc = "call"
  /\ fn = "_extract_deducciones"
  /\ arg \in DeduccionSections
  /\ ret = Return(<<>>)
  /\ calls = 0

ExtractDeducciones ==
  /\ pc = "call"
  /\ fn = "_extract_deducciones"
  /\ ret' = Return(_extract_deducciones(arg))
  /\ pc' = "return"
  /\ calls' = calls + 1
  /\ UNCHANGED <<fn, arg>>

NextDeducciones == ExtractDeducciones

SpecDeducciones == InitDeducciones /\ [][NextDeducciones]_vars

\* ------------------------------------------------------------ adjustment path

InitAjuste ==
  /\ pc = "call"
  /\ fn = "_extract_operation_from_ajuste_credito"
  /\ arg \in AjusteTexts
  /\ ret = Return(NoOperation)
  /\ calls = 0

ExtractOperationFromAjusteCredito ==
  /\ pc = "call"
  /\ fn = "_extract_operation_from_ajuste_credito"
  /\ ret' = Return(_extract_operation_from_ajuste_credito(arg))
  /\ pc' = "return"
  /\ calls' = calls + 1
  /\ UNCHANGED <<fn, arg>>

NextAjuste == ExtractOperationFromAjusteCredito

SpecAjuste == InitAjuste /\ [][NextAjuste]_vars

\* ------------------------------------------------------------ assembler

InitDoc ==
  /\ pc = "call"
  /\ fn \in {"parse_liquidacion_pdf", "detectar_nc_liquidacion"}
  /\ arg \in Docs \cup DegenerateDocs \cup OperationDocs \cup ShortRowDocs \cup GananciasDocs
               \cup CoeDocs \cup MeDocs
  /\ ret = Return(FALSE)
  /\ calls = 0

ParseLiquidacionPdf ==
  /\ pc = "call"
  /\ fn = "parse_liquidacion_pdf"
  /\ ret' = Return(parse_liquidacion_pdf(arg))
  /\ pc' = "return"
  /\ calls' = calls + 1
  /\ UNCHANGED <<fn, arg>>

DetectarNcLiquidacion ==
  /\ pc = "call"
  /\ fn = "detectar_nc_liquidacion"
  /\ ret' = Return(detectar_nc_liquidacion(FullText(arg)))
  /\ pc' = "return"
  /\ calls' = calls + 1
  /\ UNCHANGED <<fn, arg>>

\* the record just returned goes to the sales sheet
BuildVentasRows ==
  /\ pc = "return"
  /\ fn = "parse_liquidacion_pdf"
  /\ ret' = Return(build_ventas_rows(<<ret.val>>))
  /\ fn' = "build_ventas_rows"
  /\ calls' = calls + 1
  /\ UNCHANGED <<pc, arg>>

\* the record just returned goes to the receipts sheet
BuildExcelCpns ==
  /\ pc = "return"
  /\ fn = "parse_liquidacion_pdf"
  /\ ret' = Return(build_excel_cpns(<<ret.val>>))
  /\ fn' = "build_excel_cpns"
  /\ calls' = calls + 1
  /\ UNCHANGED <<pc, arg>>

NextDoc == ParseLiquidacionPdf \/ DetectarNcLiquidacion \/ BuildVentasRows \/ BuildExcelCpns

SpecDoc == InitDoc /\ [][NextDoc]_vars

\* ------------------------------------------------------------ claims: sign

\* -abs(x), None counting as 0.0
MinusAbs(v) == IF v.ok THEN Float(-Abs(v.m), v.e) ELSE Zero

\* C2: sign normalization is idempotent.  Whatever the number of applications
\* (one or more), _neg_abs leaves -abs(x) of the first input, which is never
\* positive; and negativizar_importes leaves the registro that one application
\* leaves: every listed field that is present and not None is -abs of its
\* first value, every other field is untouched.
C2_SignIdempotent ==
  /\ (pc = "return" /\ fn = "_neg_abs")
       => /\ ~ ret.raised
          /\ ret.val = MinusAbs(arg.v)
          /\ ret.val.m <= 0
  /\ (pc = "return" /\ fn = "negativizar_importes")
       => /\ DOMAIN ret.val = DOMAIN arg.registro
          /\ \A k \in DOMAIN arg.registro :
               ret.val[k] = IF k \in Range(arg.campos) /\ arg.registro[k].ok
                            THEN MinusAbs(arg.registro[k])
                            ELSE arg.registro[k]

\* a second application to an amount the first one already made negative
C2_Witness ==
  /\ pc = "return" /\ calls = 2
  /\ \/ fn = "_neg_abs" /\ arg.v.ok /\ arg.v.m > 0 /\ ret.val.m < 0
     \/ /\ fn = "negativizar_importes" /\ arg.campos = <<"Neto", "IVA", "Total">>
        /\ arg.registro["Neto"].ok /\ arg.registro["Neto"].m > 0 /\ ret.val["Neto"].m < 0

\* ------------------------------------------------------------ claims: numbers

\* what is left of the input once every character outside [0-9,.-] is dropped
Cleaned(raw) == KeepChars(Strip(raw.s), NumKeep)

LastSeparator(s) ==
  LET seps == {i \in 1..Len(s) : Char(s, i) \in {",", "."}}
  IN CHOOSE i \in seps : \A j \in seps : j <= i

\* a minus sign anywhere but in front
MinusInside(s) == \E i \in 2..Len(s) : Char(s, i) = "-"

Signed(s, n) == IF s # "" /\ Head(s) = "-" THEN -n ELSE n

\* the number whose decimal separator is the one at position p, every other
\* separator being dropped
DecimalAt(s, p) == Float(Signed(s, DigitsValue(s, 0)), Len(s) - p)

\* the separator kind that is not c
OtherSeparator(c) == IF c = "," THEN "." ELSE ","

\* C5: when the cleaned text holds both '.' and ',', the right-most separator
\* is the decimal separator and every separator of the other kind is dropped:
\* if what is left holds the decimal separator once, a digit, and no minus
\* sign except in front, the result is the digits before the separator, a
\* point, the digits after it; otherwise it is no number and the result is
\* None.  Both parsers.
C5_RightmostSeparatorIsDecimal ==
  (pc = "return" /\ fn \in {"parse_number", "parse_ar_number"} /\ ~ arg.none
     /\ HasChar(Cleaned(arg), ",") /\ HasChar(Cleaned(arg), "."))
  => LET s == Cleaned(arg)
         dec == Char(s, LastSeparator(s))
         t == KeepChars(s, NumKeep \ {OtherSeparator(dec)})
     IN /\ ~ ret.raised
        /\ ret.val = IF /\ CountChar(t, dec) = 1
                        /\ ~ MinusInside(t)
                        /\ HasDigit(t)
                     THEN DecimalAt(t, LastSeparator(t))
                     ELSE None
        /\ (arg.s = "1.234.567,89" => ret.val = Float(123456789, 2))
        /\ (arg.s = "129,250.00" => ret.val = Float(129250, 0))

C5_Witness ==
  /\ pc = "return" /\ fn = "parse_number"
  /\ arg = Str("1.234.567,89") /\ ret = Return(Float(123456789, 2))

\* C6: when ',' is the only separator, parse_number reads it as the decimal
\* separator exactly when it is a single comma followed by 1 to 3 digits at the
\* end, and in every other case drops every comma and returns the number that
\* is left (1,234,567 gives 1234567).
C6_CommaOnly ==
  (pc = "return" /\ fn = "parse_number" /\ ~ arg.none
     /\ HasChar(Cleaned(arg), ",") /\ ~ HasChar(Cleaned(arg), ".")
     /\ HasDigit(Cleaned(arg)) /\ ~ MinusInside(Cleaned(arg)))
  => LET s == Cleaned(arg)
     IN ret.val = IF CountChar(s, ",") = 1 /\ CommaTail(s)
                  THEN DecimalAt(s, LastSeparator(s))
                  ELSE Float(Signed(s, DigitsValue(s, 0)), 0)

\* a minus sign somewhere after a digit, or more than one minus sign
BadMinus(s) ==
  \/ CountChar(s, "-") > 1
  \/ \E i \in 1..Len(s) : \E j \in (i + 1)..Len(s) : IsDigit(Char(s, i)) /\ Char(s, j) = "-"

\* C7: parse_number never raises; it returns None for None, for empty or
\* whitespace-only input, for input without a digit and for input whose
\* cleaned form is no number (a second minus sign, a minus sign after a
\* digit), and never returns a number for an input without a digit.
C7_NeverRaises ==
  (pc = "return" /\ fn = "parse_number")
  => /\ ~ ret.raised
     /\ (arg.none \/ Strip(arg.s) = "" \/ ~ HasDigit(arg.s) \/ BadMinus(Cleaned(arg))
           => ret.val = None)
     /\ (ret.val.ok => ~ arg.none /\ HasDigit(arg.s))

C7_Witness ==
  /\ pc = "return" /\ fn = "parse_number"
  /\ arg \in {Str("-,"), Str("--1"), Str("1.1.1")} /\ ret = Return(None)

\* ------------------------------------------------------------ claims: tax id

\* a formatted id starts at i: 2 digits, a separator if a = 1, 8 digits, a
\* separator if b = 1, 1 digit, the whole between word boundaries
FormattedId(s, i, a, b) ==
  /\ WordBoundary(s, i - 1)
  /\ DigitRun(s, i, 2)
  /\ (a = 1 => i + 2 <= Len(s) /\ ~ IsDigit(Char(s, i + 2)))
  /\ DigitRun(s, i + 2 + a, 8)
  /\ (b = 1 => i + 10 + a <= Len(s) /\ ~ IsDigit(Char(s, i + 10 + a)))
  /\ DigitRun(s, i + 10 + a + b, 1)
  /\ WordBoundary(s, i + 10 + a + b)

FormattedStarts(s) == {i \in 1..Len(s) : \E a, b \in {0, 1} : FormattedId(s, i, a, b)}

BareRunStarts(s) ==
  {i \in 1..Len(s) : WordBoundary(s, i - 1) /\ DigitRun(s, i, 11) /\ WordBoundary(s, i + 10)}


\* C8: parse_cuit_digits never raises and applies its patterns in order: the
\* left-most 2-8-1 group gives its 11 digits; otherwise a bare 11-digit run
\* gives that run; otherwise the digits of the text are returned, cut to the
\* first 11 when there are at least 11.  The result holds digits only, at
\* most 11 of them, and is "" when the input has no digit.
C8_CuitDigits ==
  (pc = "return" /\ fn = "parse_cuit_digits")
  => LET s == IF arg.none THEN "" ELSE arg.s
         d == KeepChars(s, Digits)
         r == ret.val
     IN /\ ~ ret.raised
        /\ \A i \in 1..Len(r) : IsDigit(Char(r, i))
        /\ Len(r) <= 11
        /\ (d = "" => r = "")
        /\ IF FormattedStarts(s) # {}
           THEN LET i == Least(FormattedStarts(s))
                    a == CHOOSE a \in {0, 1} : \E b \in {0, 1} : FormattedId(s, i, a, b)
                    b == CHOOSE b \in {0, 1} : FormattedId(s, i, a, b)
                IN r = KeepChars(SubSeq(s, i, i + 10 + a + b), Digits)
           ELSE IF BareRunStarts(s) # {}
           THEN r = SubSeq(s, Least(BareRunStarts(s)), Least(BareRunStarts(s)) + 10)
           ELSE r = IF Len(d) >= 11 THEN SubSeq(d, 1, 11) ELSE d
        /\ (s = "30-12345678-9" => r = "30123456789")
        /\ (s = "no id here" => r = "")

\* a formatted id that does not start the digits of the text: the fallback
\* alone would return other digits
C8_Witness ==
  /\ pc = "return" /\ fn = "parse_cuit_digits"
  /\ arg = Str("9-30123456789") /\ ret = Return("30123456789")

\* ------------------------------------------------------------ claims: layout

\* the columns are rendered in reverse order: VENDEDOR in the left block's
\* text, COMPRADOR in the right block's, and not the other way round
ReversedColumns(page) ==
  LET left == _norm(LeftText(page))
      right == _norm(RightText(page))
  IN /\ Contains(left, "VENDEDOR") /\ Contains(right, "COMPRADOR")
     /\ ~ (Contains(left, "COMPRADOR") /\ Contains(right, "VENDEDOR"))

\* C9: when the columns are rendered in reverse order the two blocks are
\* swapped: comprador is parsed from the block under the COMPRADOR header
\* (the right one) and vendedor from the block under the VENDEDOR header
\* (the left one).
C9_ReversedColumnsSwapped ==
  (pc = "return" /\ fn = "_extract_parties_from_layout" /\ ReversedColumns(arg))
  => /\ ret.val.comprador = _party_from_text(RightText(arg))
     /\ ret.val.vendedor = _party_from_text(LeftText(arg))

\* the number of occurrences of w in words
Occurrences(words, w) == Cardinality({i \in 1..Len(words) : words[i] = w})

\* the words of the page whose top lies inside the party band
BandWords(page) ==
  LET y_start == YStart(page)
      y_end == YEnd(page)
  IN {w \in Range(page.words) : w.top >= y_start /\ w.top <= y_end}

\* C10: every word whose top lies inside the party band lands in exactly one
\* of the two blocks, the left one if its x0 is less than the split x and the
\* right one otherwise; a word outside the band lands in neither.  With
\* COMPRADOR at x=0 and VENDEDOR at x=300 a word at x=10 is left and a word
\* at x=310 is right.
C10_BandPartition ==
  (pc = "return" /\ fn = "_extract_parties_from_layout")
  => LET left == LeftWords(arg)
         right == RightWords(arg)
         band == BandWords(arg)
         x_split2 == XSplit2(arg)
     IN /\ \A w \in Range(arg.words) :
             LET l == Occurrences(left, w)
                 r == Occurrences(right, w)
             IN IF w \in band
                THEN /\ l + r = Occurrences(arg.words, w)
                     /\ (2 * w.x0 < x_split2 => r = 0)
                     /\ (2 * w.x0 >= x_split2 => l = 0)
                ELSE l = 0 /\ r = 0
        /\ Range(left) \cup Range(right) \subseteq Range(arg.words)
        /\ (FirstX0(arg.words, "COMPRADOR") = 0 /\ FirstX0(arg.words, "VENDEDOR") = 300
              => \A w \in band : /\ (w.x0 = 10 => w \in Range(left))
                                 /\ (w.x0 = 310 => w \in Range(right)))

\* COMPRADOR at x=0 and VENDEDOR at x=300, a word on the split line, words on
\* both sides of it inside the band and a word outside the band
C10_Witness ==
  /\ pc = "return" /\ fn = "_extract_parties_from_layout"
  /\ FirstX0(arg.words, "COMPRADOR") = 0 /\ FirstX0(arg.words, "VENDEDOR") = 300
  /\ \E w \in BandWords(arg) : w.x0 = 150 /\ w \in Range(RightWords(arg))
  /\ \E w \in Range(LeftWords(arg)) : w.x0 = 10
  /\ \E w \in Range(RightWords(arg)) : w.x0 = 310
  /\ Range(arg.words) \ BandWords(arg) # {}

\* ------------------------------------------------------------ claims: credit notes

\* the normalized text of the document
NormText(doc) == _norm(FullText(doc))

\* the adjustment-conditions phrase, with or without a space on either side
\* of its dash, occurs in the normalized text n
HasAdjustmentPhrase(n) ==
  \E a, b \in {"", " "} :
    Contains(n, "CONDICIONES DE LA OPERACION" \o a \o "-" \o b \o "AJUSTE CREDITO")

\* both triggers of the sign normalization occur in the normalized text n
CreditNote(n) == HasAdjustmentPhrase(n) /\ Contains(n, "AJUSTE UNIFICADO")

\* the amounts of a deduction line
LineAmounts(d) == <<d.neto, d.iva, d.total>>

\* the amounts of a record
RecordAmounts(r) == <<r.neto, r.iva, r.total, r.ret_iva, r.ret_gan>>

\* C1: in the record returned for a document detected as a credit note, each
\* of neto, iva, total, ret_iva, ret_gan and the neto, iva and total of every
\* deduction line, the appended Arancel line included, is -abs of the value
\* the extractors produced, hence never positive.
C1_CreditNoteAmountsNegative ==
  (pc = "return" /\ fn = "parse_liquidacion_pdf" /\ _is_nc(NormText(arg)))
  => LET x == Extracted(arg)
         r == ret.val
         ar_4905 == _extract_arancel_4905(FullText(arg))
     IN /\ \A i \in 1..5 :
             /\ RecordAmounts(r)[i] = MinusAbs(RecordAmounts(x)[i])
             /\ RecordAmounts(r)[i].m <= 0
        /\ Len(r.deducciones) = Len(x.deducciones)
        /\ \A k \in 1..Len(r.deducciones) : \A i \in 1..3 :
             /\ LineAmounts(r.deducciones[k])[i] = MinusAbs(LineAmounts(x.deducciones[k])[i])
             /\ LineAmounts(r.deducciones[k])[i].m <= 0
        /\ (ar_4905.m # 0
              => LET last == r.deducciones[Len(r.deducciones)]
                 IN /\ last.concepto = ArancelConcepto
                    /\ last.neto = MinusAbs(ar_4905)
                    /\ last.total = MinusAbs(ar_4905))

\* a credit note whose extractors return amounts of both signs: a negative
\* neto, a positive and a negative deduction line and the Arancel line
C1_Witness ==
  /\ pc = "return" /\ fn = "parse_liquidacion_pdf" /\ _is_nc(NormText(arg))
  /\ LET x == Extracted(arg)
     IN /\ x.neto.m < 0 /\ ret.val.neto = x.neto
        /\ x.ret_iva.m > 0 /\ ret.val.ret_iva.m < 0
        /\ \E k \in 1..Len(x.deducciones) : x.deducciones[k].neto.m > 0
        /\ \E k \in 1..Len(x.deducciones) : x.deducciones[k].neto.m < 0
        /\ x.deducciones[Len(x.deducciones)].concepto = ArancelConcepto

\* C3: the sign normalization is triggered only when the normalized text
\* holds both the adjustment-conditions phrase and AJUSTE UNIFICADO: for a
\* document that holds only one of the two, or neither, the amounts of the
\* record are exactly the extractors' values; and detectar_nc_liquidacion
\* answers True only for a text that holds both.
C3_NormalizationOnlyForCreditNotes ==
  /\ (pc = "return" /\ fn = "parse_liquidacion_pdf" /\ ~ CreditNote(NormText(arg)))
       => LET x == Extracted(arg)
              r == ret.val
          IN /\ RecordAmounts(r) = RecordAmounts(x)
             /\ r.deducciones = x.deducciones
  /\ (pc = "return" /\ fn = "detectar_nc_liquidacion" /\ ret.val)
       => CreditNote(NormText(arg))

\* a document that holds only one of the two texts and has amounts that are
\* not zero
C3_Witness ==
  /\ pc = "return" /\ fn = "parse_liquidacion_pdf"
  /\ HasAdjustmentPhrase(NormText(arg)) # Contains(NormText(arg), "AJUSTE UNIFICADO")
  /\ ret.val.neto.m > 0 /\ ret.val.ret_iva.m > 0
  /\ \E k \in 1..Len(ret.val.deducciones) : ret.val.deducciones[k].neto.m > 0

\* C4: tipo_cbte is F1 or F2: F2 when the document is a credit note, whatever
\* else its text holds, or when the normalized text holds LIQUIDACION
\* SECUNDARIA, and F1 in every other case; letra is "A".
C4_TipoCbte ==
  (pc = "return" /\ fn = "parse_liquidacion_pdf")
  => LET n == NormText(arg)
     IN /\ ret.val.tipo_cbte \in {"F1", "F2"}
        /\ ret.val.tipo_cbte = "F2" <=> (CreditNote(n) \/ Contains(n, "LIQUIDACION SECUNDARIA"))
        /\ ret.val.letra = "A"

\* a secondary settlement that is no credit note
C4_Witness ==
  /\ pc = "return" /\ fn = "parse_liquidacion_pdf"
  /\ ~ CreditNote(NormText(arg)) /\ Contains(NormText(arg), "LIQUIDACION SECUNDARIA")
  /\ ret.val.tipo_cbte = "F2"

\* ------------------------------------------------------------ claims: parties

\* C11: when the layout-based party extraction raises, parse_liquidacion_pdf
\* returns all the same: acopio, comprador and vendedor are empty parties, and
\* every other field is what the same document yields on a page that can be
\* read.
C11_LayoutFailureTolerated ==
  (pc = "return" /\ fn = "parse_liquidacion_pdf"
     /\ _extract_parties_from_layout(arg.page0).raised)
  => /\ ~ ret.raised
     /\ ret.val.acopio = EmptyParty
     /\ ret.val.comprador = EmptyParty
     /\ ret.val.vendedor = EmptyParty
     /\ ret.val = [parse_liquidacion_pdf([arg EXCEPT !.page0 = FirstPage])
                     EXCEPT !.acopio = EmptyParty,
                            !.comprador = EmptyParty,
                            !.vendedor = EmptyParty]

\* a credit note on a degenerate page, with its number, amounts and
\* deductions read
C11_Witness ==
  /\ pc = "return" /\ fn = "parse_liquidacion_pdf"
  /\ _extract_parties_from_layout(arg.page0).raised
  /\ ret.val.comprador = EmptyParty
  /\ _is_nc(NormText(arg)) /\ ret.val.coe # "" /\ ret.val.neto.m < 0 /\ ret.val.ret_iva.m < 0
  /\ Len(ret.val.deducciones) > 0

\* ------------------------------------------------------------ claims: operation

\* the normalized text n sends the document down the adjustment path
AdjustmentPath(n) == Contains(n, "AJUSTE UNIFICADO") /\ Contains(n, "AJUSTE CREDITO")

\* the lines of the document's text
TextLines(doc) == SplitLines(FullText(doc))

\* the six tokens t read by the number parser
TokensRead(t) == [i \in 1..6 |-> parse_number(Str(t[i])).val]

\* kilos, precio, neto, alic_iva, iva and total of a record
OperationFields(r) == <<r.kilos, r.precio, r.neto, r.alic_iva, r.iva, r.total>>

\* C12: for a document that is not on the adjustment path and whose text
\* holds an operation line <kilos> Kg <price> <net> <rate> <vat> <total>,
\* with or without currency symbols, kilos, precio, neto, alic_iva, iva and
\* total of the record are the six tokens of that line, read by the number
\* parser, in that order.
C12_StandardOperationRead ==
  (pc = "return" /\ fn = "parse_liquidacion_pdf" /\ ~ AdjustmentPath(NormText(arg)))
  => \A t \in OperationTokens : \A sym \in CurrencySymbols :
       (\E i \in 1..Len(TextLines(arg)) : TextLines(arg)[i] = OperationLineOf(t, sym))
         => OperationFields(ret.val) = TokensRead(t)

\* C12 for the documents whose operation line is not the first line of the
\* text
C12_OperationReadBelowFirstLine ==
  (pc = "return" /\ fn = "parse_liquidacion_pdf" /\ ~ AdjustmentPath(NormText(arg)))
  => \A t \in OperationTokens : \A sym \in CurrencySymbols :
       (\E i \in 2..Len(TextLines(arg)) : TextLines(arg)[i] = OperationLineOf(t, sym))
         => OperationFields(ret.val) = TokensRead(t)

\* the adjustment path is taken and reads an operation
AdjustmentRowFound(doc) ==
  /\ AdjustmentPath(NormText(doc))
  /\ _extract_operation_from_ajuste_credito(FullText(doc)).found

\* the pattern of the standard path matches in the text
StandardRowFound(doc) == ReSearch(ReOperationStandard, FullText(doc)).ok

\* C13: when neither the adjustment path nor the standard path finds an
\* operation row, kilos, precio, neto, alic_iva, iva and total are all 0.0
\* and nothing is raised; so too when the adjustment path is tried and finds
\* no data row, or one of fewer than five numbers.
C13_NoOperationAllZero ==
  (pc = "return" /\ fn = "parse_liquidacion_pdf"
     /\ ~ AdjustmentRowFound(arg) /\ ~ StandardRowFound(arg))
  => /\ ~ ret.raised
     /\ \A i \in 1..6 : OperationFields(ret.val)[i] = Zero

\* the adjustment path tried on a data row of two numbers, which the
\* standard pattern does not match either
C13_Witness ==
  /\ pc = "return" /\ fn = "parse_liquidacion_pdf"
  /\ AdjustmentPath(NormText(arg))
  /\ \E i \in 1..Len(TextLines(arg)) : TextLines(arg)[i] = "1000 Kg 2 5"
  /\ ~ AdjustmentRowFound(arg) /\ ~ StandardRowFound(arg)
  /\ \A i \in 1..6 : OperationFields(ret.val)[i] = Zero

\* ------------------------------------------------------------ claims: retentions

\* C14: for a RETENCIONES section whose I.V.A. line carries a percentage r, a
\* base amount b and a retained amount a, the resolver returns a, never r and
\* never b, whether a follows a currency symbol or the amounts are bare.
C14_RetainedAmountReturned ==
  (pc = "return" /\ fn = "_extract_retencion_iva_from_retenciones_table")
  => \A label \in RetencionLabels, r \in RetencionRates, form \in RetencionForms,
        ab \in RetencionAmounts :
       arg = RetencionSection(label, r, form, ab[1], ab[2])
         => ret.val = parse_number(Str(ab[1])).val

\* C15: in every record of parse_liquidacion_pdf the income-tax withholding
\* ret_gan is zero, whatever the text of the document, and build_ventas_rows
\* never emits an RA05 row.
C15_NoIncomeTaxWithholding ==
  /\ (pc = "return" /\ fn = "parse_liquidacion_pdf") => ret.val.ret_gan = Zero
  /\ (pc = "return" /\ fn = "build_ventas_rows")
       => \A i \in 1..Len(ret.val) : ret.val[i].cod_pr # "RA05"

\* the sales rows of a document whose text has a line for the income tax:
\* the main row and the RA07 row only
C15_Witness ==
  /\ pc = "return" /\ fn = "build_ventas_rows"
  /\ Contains(NormText(arg), "GANANCIAS 2%")
  /\ Len(ret.val) = 2
  /\ ret.val[2].cod_pr = "RA07" /\ ret.val[2].total.m # 0

\* C14 for the sections in which the retained amount is the only one that
\* follows a currency symbol
C14_OnlyDollarAmountReturned ==
  (pc = "return" /\ fn = "_extract_retencion_iva_from_retenciones_table")
  => \A label \in RetencionLabels, r \in RetencionRates, form \in {"$a (b)", "b $a"},
        ab \in RetencionAmounts :
       arg = RetencionSection(label, r, form, ab[1], ab[2])
         => ret.val = parse_number(Str(ab[1])).val

\* ------------------------------------------------------------ claims: deductions

\* the lines of a section between its DEDUCCIONES and RETENCIONES lines
SectionBody(txt) == With(SplitLines(txt), LAMBDA l : SubSeq(l, 2, Len(l) - 1))

IsShaped(ln) == \E d \in ShapedLines : ShapedLineOf(d) = ln

ShapeOf(ln) == CHOOSE d \in ShapedLines : ShapedLineOf(d) = ln

\* the positions of the shaped lines
ShapedAt(lines) == {i \in 1..Len(lines) : IsShaped(lines[i])}

\* the positions after the shaped line that precedes the i-th line
SincePrevious(lines, i) ==
  {j \in 1..(i - 1) : \A h \in j..(i - 1) : ~ IsShaped(lines[h])}

\* neto, alic, iva and total of a deduction line
LineNumbers(l) == <<l.neto, l.alic, l.iva, l.total>>

ShapedTokensRead(d) == [j \in 1..4 |-> parse_number(Str(d.tokens[j])).val]

\* what precedes the concept of the i-th line in its concepto: the last
\* detail code line and then the unmatched lines, of those read since the
\* previous shaped line
ConceptPrefix(lines, i) ==
  With(SincePrevious(lines, i),
       LAMBDA since :
         With({j \in since : lines[j] \in DetailLines},
              LAMBDA details :
                (IF details = {} THEN <<>> ELSE <<lines[Nth(details, Cardinality(details))]>>)
                  \o Flatten([j \in 1..Len(lines) |->
                                IF j \in since /\ lines[j] \in UnmatchedLines
                                THEN <<lines[j]>> ELSE <<>>],
                             1, Len(lines))))

\* the k-th line returned is the k-th shaped line read: its four numbers are
\* the four tokens, its concepto is the given one
ShapedLinesRead(lines, out, Concepto(_, _)) ==
  /\ Len(out) = Cardinality(ShapedAt(lines))
  /\ \A k \in 1..Len(out) :
       With(Nth(ShapedAt(lines), k),
            LAMBDA i :
              /\ LineNumbers(out[k]) = ShapedTokensRead(ShapeOf(lines[i]))
              /\ out[k].concepto = Concepto(lines, i))

Without(lines, i) == SubSeq(lines, 1, i - 1) \o SubSeq(lines, i + 1, Len(lines))

\* a list of deduction lines with the conceptos left out
NumbersOnly(out) == [k \in 1..Len(out) |-> LineNumbers(out[k])]

\* C17: a line of the section that matches neither shape is skipped without
\* effect: the list returned, every concepto included, is the list returned
\* for the section without that line, and the parser does not raise.
C17_UnmatchedLineSkipped ==
  (pc = "return" /\ fn = "_extract_deducciones")
  => /\ ~ ret.raised
     /\ \A i \in 1..Len(SectionBody(arg)) :
          SectionBody(arg)[i] = UnmatchedLine
            => ret.val = _extract_deducciones(DeduccionSection(Without(SectionBody(arg), i)))

\* C17 for the numbers alone: without the unmatched line the list has the
\* same length and the same neto, alic, iva and total
C17_UnmatchedLineKeepsNumbers ==
  (pc = "return" /\ fn = "_extract_deducciones")
  => /\ ~ ret.raised
     /\ \A i \in 1..Len(SectionBody(arg)) :
          SectionBody(arg)[i] = UnmatchedLine
            => NumbersOnly(ret.val)
                 = NumbersOnly(_extract_deducciones(DeduccionSection(Without(SectionBody(arg), i))))

\* ------------------------------------------------------------ claims: C.O.E.

\* the digits of coe from the fifth to the twelfth, as many as there are
NextEight(coe) == SubSeq(coe, 5, Min(12, Len(coe)))

\* C18: the coe of the record is the run of 8 or more digits that follows
\* "C.O.E.:", pv is its first 4 digits and numero the digits that follow them
\* up to the twelfth, by position: 8 digits for a coe of 12 or more, the 4
\* to 7 digits left for a shorter one; with no such run in the text, coe, pv
\* and numero are empty.
C18_CoeByPosition ==
  (pc = "return" /\ fn = "parse_liquidacion_pdf")
  => /\ \A label \in CoeLabels, digits \in CoeDigits :
          arg = CoeDoc(label, digits)
            => ret.val.coe = (IF Len(digits) >= 8 THEN digits ELSE "")
     /\ ret.val.coe # ""
          => /\ ret.val.pv = SubSeq(ret.val.coe, 1, 4)
             /\ ret.val.numero = NextEight(ret.val.coe)
             /\ Len(ret.val.numero) = Min(8, Len(ret.val.coe) - 4)
     /\ (ret.val.coe = "" \/ ~ Contains(Upper(FullText(arg)), "C.O.E."))
          => ret.val.coe = "" /\ ret.val.pv = "" /\ ret.val.numero = ""

\* a coe of 14 digits under a lower-case label: the numero is cut at the
\* twelfth digit
C18_Witness ==
  /\ pc = "return" /\ fn = "parse_liquidacion_pdf"
  /\ arg = CoeDoc("c.o.e. :", "33011234567890")
  /\ ret.val.coe = "33011234567890"
  /\ ret.val.pv = "3301"
  /\ ret.val.numero = "12345678"

\* C18 as stated: for every coe extracted, pv is its first 4 digits and
\* numero is the 8 digits that follow them.
C18_NumeroIsEightDigits ==
  (pc = "return" /\ fn = "parse_liquidacion_pdf" /\ ret.val.coe # "")
  => /\ ret.val.pv = SubSeq(ret.val.coe, 1, 4)
     /\ Len(ret.val.numero) = 8
     /\ ret.val.numero = NextEight(ret.val.coe)

\* ------------------------------------------------------------ claims: goods delivered

\* the item of a row of the section, with the Localidad of the section
ItemOfRow(t, loc) ==
  MeFields(t[1], t[2], parse_number(Str(t[3])).val, parse_number(Str(t[4])).val,
           parse_number(Str(t[5])).val, loc)

ItemsOfRows(rows, loc) == [i \in 1..Len(rows) |-> ItemOfRow(rows[i], loc)]

\* the goods-delivered columns of the rows of the receipts sheet
ItemsOfSheet(sheet) ==
  [j \in 1..Len(sheet) |->
     MeFields(sheet[j].nro, sheet[j].grado, sheet[j].factor, sheet[j].prot, sheet[j].peso,
              sheet[j].proced)]

\* C19: for a goods-delivered section with k rows <receipt> <grade> <factor>
\* <protein> <weight>, the record carries k goods-delivered items, one per row
\* in order, each with the Localidad of the section as origin; none for k = 0.
C19_ItemPerRow ==
  (pc = "return" /\ fn = "parse_liquidacion_pdf")
  => \A marks \in MeMarkers, loc \in MeLocalidades, rows \in MeRowLists :
       arg = MeDoc(marks, loc, rows) => MeItems(ret.val) = ItemsOfRows(rows, loc)

\* C19 for the first row alone: the record carries the item of the first row
\* of the section and no other, none for a section without rows; the
\* receipts sheet has one row for the record either way
C19_FirstRowOnly ==
  \A marks \in MeMarkers, loc \in MeLocalidades, rows \in MeRowLists :
    arg = MeDoc(marks, loc, rows)
      => /\ (pc = "return" /\ fn = "parse_liquidacion_pdf")
              => MeItems(ret.val) = ItemsOfRows(SubSeq(rows, 1, Min(1, Len(rows))), loc)
         /\ (pc = "return" /\ fn = "build_excel_cpns")
              => /\ Len(ret.val) = 1
                 /\ rows # <<>> => ItemsOfSheet(ret.val) = <<ItemOfRow(rows[1], loc)>>
                 /\ rows = <<>> => ret.val[1].nro = ""

\* ------------------------------------------------------------ claims: split

\* both header tokens are on the page, at different x
BothHeadersApart(page) ==
  /\ FirstX0(page.words, "COMPRADOR") # -1
  /\ FirstX0(page.words, "VENDEDOR") # -1
  /\ FirstX0(page.words, "COMPRADOR") # FirstX0(page.words, "VENDEDOR")

\* twice the midpoint of the two header tokens
Midpoint2(page) == FirstX0(page.words, "COMPRADOR") + FirstX0(page.words, "VENDEDOR")

\* C20: the split x is the midpoint of the x of the COMPRADOR and VENDEDOR
\* tokens whenever both are found at different x, in whichever order they
\* stand, and half the page width otherwise; the words of the band go to the
\* left block when their x0 is below it.
C20_SplitIsMidpoint ==
  (pc = "return" /\ fn = "_extract_parties_from_layout" /\ ~ ret.raised)
  => /\ XSplit2(arg) = (IF BothHeadersApart(arg) THEN Midpoint2(arg) ELSE arg.width)
     /\ \A w \in BandWords(arg) :
          w \in Range(LeftWords(arg))
            <=> 2 * w.x0 < (IF BothHeadersApart(arg) THEN Midpoint2(arg) ELSE arg.width)

\* C20 for the pages on which COMPRADOR stands to the left of VENDEDOR, which
\* have the midpoint, and those without one of the tokens, which have half
\* the page width
C20_SplitWhenCompradorLeft ==
  (pc = "return" /\ fn = "_extract_parties_from_layout" /\ ~ ret.raised)
  => /\ (BothHeadersApart(arg)
           /\ FirstX0(arg.words, "COMPRADOR") < FirstX0(arg.words, "VENDEDOR"))
          => XSplit2(arg) = Midpoint2(arg)
     /\ ~ (FirstX0(arg.words, "COMPRADOR") # -1 /\ FirstX0(arg.words, "VENDEDOR") # -1)
          => XSplit2(arg) = arg.width

\* ------------------------------------------------------------ claims: adjustment row

\* the k-th number of a data row
RowNumber(t, k) == parse_number(Str(t[k])).val

\* the operation of a data row read by position
RowByPosition(t) ==
  IF Len(t) < 5 THEN NoOperation
  ELSE IF Len(t) >= 6
  THEN SomeOperation(Operation(RowNumber(t, 1), RowNumber(t, 2), RowNumber(t, 3),
                               RowNumber(t, 4), RowNumber(t, 5), RowNumber(t, 6)))
  ELSE SomeOperation(Operation(RowNumber(t, 1), RowNumber(t, 2), RowNumber(t, 3),
                               Float(105, 1), RowNumber(t, 4), RowNumber(t, 5)))

\* C21: on the adjustment path the numbers of the data row are assigned by
\* position: the first three are kilos, price and subtotal; with six or more
\* the fourth is the rate, the fifth the VAT and the sixth the total; with
\* exactly five the rate is 10.5 and the fourth and fifth are the VAT and the
\* total; no value is computed from the others.
C21_RowByPosition ==
  pc = "return"
  => \A heading \in AjusteHeadings, titles \in AjusteTitles, t \in AjusteTokens,
        sym \in {"", "$ "}, tail \in AjusteTails :
       arg = AjusteText(heading, titles, t, sym, tail) => ret.val = RowByPosition(t)

\* a row of five numbers has come back with the rate 10.5, and a row of six
\* with a rate that its VAT does not follow from
C21_Witness ==
  /\ pc = "return"
  /\ ret.val.found
  /\ \/ ret.val.op.alic = Float(105, 1) /\ ret.val.op.iva = Float(2625, 1)
     \/ ret.val.op.alic = Float(21, 0) /\ ret.val.op.iva = Float(2625, 1)

\* ------------------------------------------------------------ claims: retention pair

\* v in units of 10^-k, for a float of at most k decimals
Scaled(v, k) == v.m * Pow10(k - v.e)

\* retained is base x rate / 100 within a relative tolerance of 3%: the
\* amounts in hundredths and the rate in tenths
RateRelated(base, retained, rate) ==
  With(Scaled(base, 2) * Scaled(rate, 1),
       LAMBDA due : Abs(Scaled(retained, 2) * 1000 - due) <= 3 * (Abs(due) \div 100))

\* the one of the pair x, y that is the retained amount of the other at the
\* rate, else 0
RetainedOfPair(x, y, rate) ==
  IF RateRelated(x, y, rate) THEN y
  ELSE IF RateRelated(y, x, rate) THEN x
  ELSE Zero

\* C22: when the I.V.A. line has no amount after a currency symbol, the two
\* bare numbers after the percentage are an unordered (base, retained) pair:
\* the resolver returns the one that is the other times rate / 100 within a
\* small relative tolerance, and 0 when neither ordering fits.
C22_PairRelatedByRate ==
  (pc = "return" /\ fn = "_extract_retencion_iva_from_retenciones_table")
  => \A label \in RetencionLabels, r \in RetencionRates, form \in {"a b", "b a"},
        ab \in RetencionAmounts :
       arg = RetencionSection(label, r, form, ab[1], ab[2])
         => ret.val = RetainedOfPair(parse_number(Str(ab[1])).val, parse_number(Str(ab[2])).val,
                                     parse_number(Str(r)).val)

\* ------------------------------------------------------------ claims: retention anchor

KindOfLine(ln) == CHOOSE k \in RetencionKinds : k.text = ln

\* the text is a table under the RETENCIONES heading
IsRetencionTable(txt) ==
  With(SplitLines(txt),
       LAMBDA l : /\ l # <<>>
                  /\ l[1] = "RETENCIONES"
                  /\ \A i \in 2..Len(l) : \E k \in RetencionKinds : k.text = l[i])

\* the lines of the table after its heading
TableKinds(txt) ==
  With(SplitLines(txt), LAMBDA l : [i \in 1..(Len(l) - 1) |-> KindOfLine(l[i + 1])])

\* the first valid anchor of the lines, else 0
FirstAnchor(kinds) ==
  IF \E i \in 1..Len(kinds) : kinds[i].anchor
  THEN CHOOSE i \in 1..Len(kinds) : kinds[i].anchor /\ \A j \in 1..(i - 1) : ~ kinds[j].anchor
  ELSE 0

\* the anchor at i and the continuation lines that follow it, two at most
AnchorBlock(kinds, i) ==
  IF i + 1 <= Len(kinds) /\ kinds[i + 1].cont
  THEN IF i + 2 <= Len(kinds) /\ kinds[i + 2].cont
       THEN SubSeq(kinds, i, i + 2)
       ELSE SubSeq(kinds, i, i + 1)
  ELSE SubSeq(kinds, i, i)

\* the non-zero amounts of the lines
AmountsOf(kinds) ==
  SignificantOnly(ParsedNumbers([i \in 1..Len(kinds) |-> kinds[i].amount]))

\* the amounts of the lines that are neither anchors nor the labeled total
OtherAmounts(kinds) ==
  {parse_number(Str(kinds[i].amount)).val :
     i \in {j \in 1..Len(kinds) : /\ ~ kinds[j].anchor
                                  /\ kinds[j].amount # ""
                                  /\ ~ Contains(kinds[j].text, "Afip")}}

\* C23: the I.V.A. anchor is the first line of the retention section with a
\* percent sign and the I.V.A. token and without IVA RG; a line without '%'
\* or with IVA RG is never the anchor, and no amount is taken from it unless
\* it follows a valid anchor as a continuation line (the labeled total apart).
C23_AnchorIsFirstValidLine ==
  (pc = "return" /\ IsRetencionTable(arg))
  => With(TableKinds(arg),
          LAMBDA kinds :
            IF FirstAnchor(kinds) = 0 THEN ret.val \notin OtherAmounts(kinds)
            ELSE With(AmountsOf(AnchorBlock(kinds, FirstAnchor(kinds))),
                      LAMBDA taken : IF taken = <<>> THEN ret.val \notin OtherAmounts(kinds)
                                     ELSE ret.val = MaxByAbs(taken)))

\* an IVA RG line stands before the I.V.A. line of 8% and the amount of the
\* latter has come back
C23_Witness ==
  /\ pc = "return"
  /\ arg = "RETENCIONES\nIVA RG 2300 10% $ 999,00\nIVA 8% $ 80,00"
  /\ ret.val = Float(80, 0)

\* ------------------------------------------------------------ claims: retention section

\* the lines before the first section-end marker (the GRADO line)
BeforeMarker(kinds) ==
  IF \E i \in 1..Len(kinds) : kinds[i].text = "GRADO 2"
  THEN SubSeq(kinds, 1, (CHOOSE i \in 1..Len(kinds) :
                           /\ kinds[i].text = "GRADO 2"
                           /\ \A j \in 1..(i - 1) : kinds[j].text # "GRADO 2") - 1)
  ELSE kinds

\* C24: the retained amount is taken only from the text between RETENCIONES
\* and the first section-end marker: what comes back for a table is what
\* comes back for the table cut at its first marker, so an I.V.A. line after
\* the marker never determines it.
C24_SectionEndsAtMarker ==
  (pc = "return" /\ IsRetencionTable(arg))
  => ret.val = _extract_retencion_iva_from_retenciones_table(
                 RetencionTable(<<"RETENCIONES">>, BeforeMarker(TableKinds(arg))))

\* ------------------------------------------------------------ claims: retention fallback

\* the amount of the labeled total of the lines, 0.0 without one
LabeledTotal(kinds) ==
  IF \E i \in 1..Len(kinds) : Contains(kinds[i].text, "Afip")
  THEN parse_number(Str("123,45")).val
  ELSE Zero

\* the labeled total stands in the section, or the lines have none
TotalInSection(kinds) == LabeledTotal(BeforeMarker(kinds)) = LabeledTotal(kinds)

StartsWith(s, prefix) == Len(prefix) <= Len(s) /\ SubSeq(s, 1, Len(prefix)) = prefix

\* the positions of the detail code lines
DetailAt(lines) == {j \in 1..Len(lines) : lines[j] \in DetailLines}

\* the shaped lines after the j-th line, and the first of them
ShapedAfter(lines, j) == {i \in ShapedAt(lines) : i > j}

\* the deduction line returned for the shaped line at position i
OutOf(lines, out, i) == out[Cardinality({h \in ShapedAt(lines) : h <= i})]

\* the detail code lines read since the shaped line before the i-th line
DetailsSince(lines, i) == SincePrevious(lines, i) \cap DetailAt(lines)

\* C26: a detail code line of the section (3 to 7 digits and '|', no
\* currency figure) yields no DeductionLine of its own; the last detail code
\* line read before a matched deduction line, and no earlier one, is prefixed
\* onto the concepto of that line, and onto no later line.
C26_LastDetailPrefixesNextLine ==
  (pc = "return" /\ fn = "_extract_deducciones")
  => With(SectionBody(arg),
          LAMBDA lines :
            /\ Len(ret.val) = Cardinality(ShapedAt(lines))
            /\ \A i \in ShapedAt(lines) :
                 /\ CountChar(OutOf(lines, ret.val, i).concepto, "|")
                      = (IF DetailsSince(lines, i) = {} THEN 0 ELSE 1)
                 /\ \A dl \in DetailLines :
                      StartsWith(OutOf(lines, ret.val, i).concepto, dl \o " ")
                        <=> /\ DetailsSince(lines, i) # {}
                            /\ dl = lines[Nth(DetailsSince(lines, i),
                                              Cardinality(DetailsSince(lines, i)))])

\* two detail code lines before a deduction line: the later one names it
C26_Witness ==
  /\ pc = "return" /\ fn = "_extract_deducciones"
  /\ SectionBody(arg) = <<DetailLine, OtherDetailLine, "Flete 2 50,00 0% 0,00 50,00">>
  /\ Len(ret.val) = 1
  /\ ret.val[1].concepto = "12345|Anticipo Flete 2"

\* C26 as stated: every detail code line is prefixed onto the concepto of
\* exactly the next matched deduction line, is attached to no later line and
\* produces no DeductionLine of its own.
C26_EveryDetailPrefixesNextLine ==
  (pc = "return" /\ fn = "_extract_deducciones")
  => With(SectionBody(arg),
          LAMBDA lines :
            /\ Len(ret.val) = Cardinality(ShapedAt(lines))
            /\ \A j \in DetailAt(lines) :
                 \A i \in ShapedAfter(lines, j) :
                   Contains(OutOf(lines, ret.val, i).concepto, lines[j])
                     <=> \A h \in ShapedAfter(lines, j) : i <= h)

\* ------------------------------------------------------------ claims: artifacts

\* C27: an artifact of the layout alone on a line of the deduction section
\* ("Administrativos") is dropped: it yields no DeductionLine and is part of
\* no concepto.
C27_ArtifactDropped ==
  (pc = "return" /\ fn = "_extract_deducciones")
  => /\ Len(ret.val) = Cardinality(ShapedAt(SectionBody(arg)))
     /\ \A k \in 1..Len(ret.val) : ~ Contains(ret.val[k].concepto, ArtifactLine)

\* ------------------------------------------------------------ claims: line grouping

\* the words of a line of the result, in the order of the line: the line is
\* the letters of its words with a space between them
WordsOfLine(line, words) ==
  [k \in 1..((Len(line) + 1) \div 2) |->
     words[CHOOSE i \in 1..Len(words) : words[i].text = Char(line, 2 * k - 1)]]

\* the lowest top of the words of a line
LowestTop(ws) == CHOOSE t \in {ws[k].top : k \in 1..Len(ws)} : \A k \in 1..Len(ws) : t <= ws[k].top

\* every word is in one line; the tops of the words of a line are within the
\* tolerance of the lowest of them, and the lowest of the next line is not
GroupedByTop(lines, words) ==
  /\ \A i \in 1..Len(words) :
       Cardinality({k \in 1..Len(lines) : words[i] \in Range(WordsOfLine(lines[k], words))}) = 1
  /\ \A k \in 1..Len(lines) :
       With(WordsOfLine(lines[k], words),
            LAMBDA ws :
              /\ \A a \in 1..Len(ws) : ws[a].top - LowestTop(ws) <= LineTolerance
              /\ k < Len(lines)
                   => LowestTop(WordsOfLine(lines[k + 1], words)) - LowestTop(ws) > LineTolerance)

\* C28: two words are in the same line when their tops are within the
\* tolerance 3 of the line's first word, and within every line the words
\* appear in ascending x0 order, also when their tops differ slightly.
C28_LinesInX0Order ==
  (pc = "return" /\ fn = "_group_words_to_lines")
  => /\ GroupedByTop(ret.val, arg)
     /\ \A k \in 1..Len(ret.val) :
          With(WordsOfLine(ret.val[k], arg),
               LAMBDA ws : \A a, b \in 1..Len(ws) : a < b => ws[a].x0 <= ws[b].x0)

\* C28 for the grouping, with the order the code gives the words of a line:
\* ascending top, and ascending x0 among the words of one top
C28_LinesInTopOrder ==
  (pc = "return" /\ fn = "_group_words_to_lines")
  => /\ GroupedByTop(ret.val, arg)
     /\ \A k \in 1..Len(ret.val) :
          With(WordsOfLine(ret.val[k], arg),
               LAMBDA ws : \A a, b \in 1..Len(ws) :
                             a < b => \/ ws[a].top < ws[b].top
                                      \/ ws[a].top = ws[b].top /\ ws[a].x0 <= ws[b].x0)

\* ------------------------------------------------------------ claims: band end

\* the words of the two party blocks
PartyBlockWords(page) == Range(LeftWords(page)) \cup Range(RightWords(page))

\* C29: the band of the party blocks starts at the top of COMPRADOR (0
\* without it) and ends at the top of the ACTUÓ token (start + 180 without
\* it); no word whose top is at or below the top of the ACTUÓ token is in
\* either party block.
C29_BandEndsAboveActuo ==
  (pc = "return" /\ fn = "_extract_parties_from_layout")
  => /\ \A w \in PartyBlockWords(arg) :
          /\ w.top >= (IF FindTop(arg.words, "COMPRADOR") # -1
                       THEN FindTop(arg.words, "COMPRADOR") ELSE 0)
          /\ FindTop(arg.words, "ACTUÓ") = -1
               => w.top <= (IF FindTop(arg.words, "COMPRADOR") # -1
                            THEN FindTop(arg.words, "COMPRADOR") ELSE 0) + BandHeight
     /\ FindTop(arg.words, "ACTUÓ") # -1
          => \A w \in PartyBlockWords(arg) : w.top < FindTop(arg.words, "ACTUÓ")

\* C29 with the end of the band included: no word whose top is below the
\* top of the ACTUÓ token is in a party block, and the words at that top,
\* the token among them, are
C29_BandEndsAtActuo ==
  (pc = "return" /\ fn = "_extract_parties_from_layout" /\ FindTop(arg.words, "ACTUÓ") # -1)
  => /\ \A w \in PartyBlockWords(arg) : w.top <= FindTop(arg.words, "ACTUÓ")
     /\ \A w \in Range(arg.words) :
          (w.top = FindTop(arg.words, "ACTUÓ") /\ w.top >= YStart(arg))
            => w \in PartyBlockWords(arg)

\* ------------------------------------------------------------ claims: adjustment credit note

\* C30: whenever the operation values come from the adjustment path (the
\* adjustment extractor returned a row), the document is a credit note: its
\* tipo_cbte is F2 and its neto, iva and total are minus the magnitude of the
\* values of the row, never positive; kilos, precio and the rate are those of
\* the row.
C30_AdjustmentIsCreditNote ==
  (pc = "return" /\ fn = "parse_liquidacion_pdf" /\ AdjustmentRowFound(arg))
  => With(_extract_operation_from_ajuste_credito(FullText(arg)).op,
          LAMBDA op :
            /\ ret.val.tipo_cbte = "F2"
            /\ ret.val.neto = MinusAbs(op.neto) /\ ret.val.neto.m <= 0
            /\ ret.val.iva = MinusAbs(op.iva) /\ ret.val.iva.m <= 0
            /\ ret.val.total = MinusAbs(op.total) /\ ret.val.total.m <= 0
            /\ ret.val.kilos = op.kilos /\ ret.val.precio = op.precio
            /\ ret.val.alic_iva = op.alic)

\* a row of positive amounts under the heading written in lower case with a
\* bare hyphen: the record is an F2 with the amounts negated
C30_Witness ==
  /\ pc = "return" /\ fn = "parse_liquidacion_pdf"
  /\ AdjustmentRowFound(arg)
  /\ Contains(FullText(arg), "Condiciones de la Operacion-Ajuste Credito")
  /\ _extract_operation_from_ajuste_credito(FullText(arg)).op.neto = Float(2500, 0)
  /\ ret.val.tipo_cbte = "F2"
  /\ ret.val.neto = Float(-2500, 0) /\ ret.val.total = Float(-27625, 1)

====
